---------------------------- MODULE Spec2Model ----------------------------
(***************************************************************************)
(* Model of the BatchCollector of the pulse collector                      *)
(* (package collector): the bounded intake channel eventCh, the worker     *)
(* goroutines with their private batch buffers, the flush closure with its *)
(* COPY / INSERT fallback, the atomic Stats counters and the               *)
(* Start / Shutdown lifecycle.                                              *)
(*                                                                         *)
(* Every atomic operation on shared state (a channel operation, an         *)
(* atomic.Int64 Add, the return of a storage call) is one step; purely     *)
(* goroutine-local statements are folded into the step that follows them.  *)
(***************************************************************************)
EXTENDS Integers, Sequences, FiniteSets, TLC

\* ------------------------------------------------------------- parameters
\* The factor of make(chan model.EnrichedEvent, config.BatchSize*10).
QueueFactor == 10

\* config.BatchSize and config.Workers of the concurrent configuration.
MaxBatchSize == 2
MaxWorkers == 2
\* Number of goroutines calling Push concurrently.
NumProducers == 2
\* Push calls of a run that does not saturate the channel.
SmallPush == 2
\* Push calls of a saturating run beyond capacity + Workers * BatchSize.
ExtraPush == 1
\* Storage calls that return an error in one run.
MaxErrors == 2
\* Longest slice given to one PushBatch call.
MaxSlice == 2
\* Track calls made on the Go client in one run.
MaxTrack == 3
\* batchSize of the Go client.
ClientBatchSize == 2
\* Flush calls made on the Go client by its user in one run.
MaxManual == 1
\* batchSize of the browser SDK.
SdkBatchSize == 2
\* Events the page hands to the browser SDK in one run.
MaxSdkEvents == 3
\* fetch calls the browser SDK makes in one run.
MaxFetch == 3
\* Clock ticks in one hour, latest clock reading and event timestamp, and
\* the most ticks between two clock readings of the request handler.
Hour == 2
MaxTime == 6
MaxLag == 1
\* Sessions created by the authentication handler in one run, the requests
\* in progress at the same time, the latest clock reading, and the clock ticks
\* of the 24 hours a session lasts.
NumTokens == 2
NumRequests == 1
MaxClock == 4
SessionTTL == 2

WorkerIds == 0 .. (MaxWorkers - 1)
Producers == 1 .. NumProducers

VARIABLES
    config,     \* c.config: BatchSize and Workers, fixed at construction
    eventCh,    \* the buffered channel c.eventCh, oldest event first
    stats,      \* c.stats: the atomic counters
    shutdown,   \* TRUE once close(c.shutdown) has run
    ctxDone,    \* TRUE once the context given to Start is cancelled
    started,    \* TRUE once Start has spawned the workers
    wg,         \* counter of c.wg
    ctl,        \* position of the caller of Shutdown
    pc,         \* position of each worker goroutine
    batch,      \* each worker's local slice batch
    toFlush,    \* each worker's snapshot toFlush of the flush in progress
    cont,       \* where the worker goes when flush() returns
    ppc,        \* position of each producer inside Push
    nextId,     \* identity given to the next event that enters eventCh
    events,     \* each producer's PushBatch call in progress: size of the
                \* slice, elements left, elements pushed and dropped so far
    env,        \* what the environment may still do: Push calls, storage errors
    hist,       \* history of the run, read by the properties only
    main,       \* the entry point: database pool, HTTP server, process exit
    client,     \* the Go client for internal services (pkg pulse)
    sdk,        \* the browser SDK (PulseSDK)
    request,    \* one event of a POST /collect request and its enrichment
    http,       \* the POST /collect request each producer's handler is serving
    auth,       \* the authentication handler: sessions, clock, requests
    reader      \* a GetStats call: its position and the values it has loaded

\* The state of the BatchCollector
collectorVars ==
    <<config, eventCh, stats, shutdown, ctxDone, started, wg, ctl, pc,
      batch, toFlush, cont, ppc, nextId, events, env, hist>>

Range(s) == {s[i] : i \in 1 .. Len(s)}

\* The state of the programs around it
moreVars == <<http, auth, reader>>
extVars == <<main, client, sdk, request, moreVars>>

vars == <<collectorVars, extVars>>

\* cap(c.eventCh)
Capacity == config.BatchSize * QueueFactor

\* ------------------------------------------------------------------ Init
Stats0 ==
    [EventsReceived |-> 0, EventsProcessed |-> 0, EventsFailed |-> 0,
     BatchesProcessed |-> 0, TotalBatchSize |-> 0]

\* hist.dropped     events dropped by Push on a full channel
\* hist.lost        events of batches whose COPY and INSERT both failed
\* hist.burst       Push sends completed since a worker last received
\* hist.late        a Push overlapped with, or followed, the call of Shutdown
\* hist.sunk        the events handed to CopyFrontendMetrics so far
\* hist.resunk      an event was handed to CopyFrontendMetrics a second time
\* hist.flushes     the flushes of a non-empty buffer started so far
\* hist.tickFlushes those of them started by a tick of the ticker
\* hist.largest     the size of the largest batch a flush was started with
\* hist.trigger[w]  what started worker w's flush in progress
\* hist.calls[w]    the storage calls of worker w's flush in progress
\* hist.dProcessed[w], hist.dFailed[w]
\*                  what that flush has added to EventsProcessed, EventsFailed
Hist0 ==
    [dropped |-> 0, lost |-> 0, burst |-> 0, late |-> FALSE,
     sunk |-> {}, resunk |-> FALSE, flushes |-> 0, tickFlushes |-> 0,
     largest |-> 0,
     trigger |-> [w \in WorkerIds |-> "none"],
     calls |-> [w \in WorkerIds |-> <<>>],
     dProcessed |-> [w \in WorkerIds |-> 0],
     dFailed |-> [w \in WorkerIds |-> 0]]

\* The configurations explored: the smallest one (one worker, batches of
\* one event), run to saturation of the channel; a concurrent one
\* (MaxWorkers workers, batches of MaxBatchSize events) with a few Push
\* calls; and two light ones, given as many Push calls as fill one batch: a
\* single worker with batches of MaxBatchSize + 1 events, and MaxWorkers
\* workers with batches of one event.
Configs ==
    {[BatchSize |-> 1, Workers |-> 1],
     [BatchSize |-> MaxBatchSize, Workers |-> MaxWorkers],
     [BatchSize |-> MaxBatchSize + 1, Workers |-> 1],
     [BatchSize |-> 1, Workers |-> MaxWorkers]}

PushBudget(cfg) ==
    IF cfg.BatchSize = 1 /\ cfg.Workers = 1
      THEN cfg.BatchSize * QueueFactor + cfg.Workers * cfg.BatchSize + ExtraPush
      ELSE IF cfg.BatchSize = MaxBatchSize THEN SmallPush ELSE cfg.BatchSize

\* No PushBatch call in progress
Events0 == [size |-> 0, left |-> 0, done |-> 0, drops |-> 0]

NewBatchCollector(cfg) ==
    /\ config = cfg
    /\ eventCh = <<>>
    /\ stats = Stats0
    /\ shutdown = FALSE
    /\ wg = 0
    /\ pc = [w \in WorkerIds |-> "none"]
    /\ batch = [w \in WorkerIds |-> <<>>]
    /\ toFlush = [w \in WorkerIds |-> <<>>]
    /\ cont = [w \in WorkerIds |-> "loop"]

\* main() has not opened the database pool yet
Main0 == [db |-> "none", server |-> "new", exited |-> FALSE]

\* The four metric buffers of the Go client, in the order Flush sends them
Kinds == <<"api", "psp", "game", "ws">>
KindSet == Range(Kinds)

\* The goroutines of the Go client that call Flush: 0 is flushLoop, the
\* others are started by go c.Flush(...) in the Track functions or are
\* callers of Flush
Flushers == 0 .. (MaxTrack + MaxManual)

NoMetrics == [k \in KindSet |-> <<>>]

\* NewClient: empty buffers, done open, flushLoop started with wg.Add(1).
\* sent and early are history: the metrics whose HTTP send has finished, and
\* the metrics of the Track calls that returned before Close was called;
\* tries counts the HTTP sends each metric was part of, failed holds the
\* metrics of the sends that returned an error, manual counts the Flush
\* calls of the user.
Client0 ==
    [buf |-> NoMetrics, done |-> FALSE, wg |-> 1, closer |-> "idle",
     fl |-> [g \in Flushers |->
               [st |-> IF g = 0 THEN "select" ELSE "none",
                snap |-> NoMetrics, final |-> FALSE]],
     next |-> 1, sent |-> {}, early |-> {},
     tries |-> [m \in 1 .. MaxTrack |-> 0], failed |-> {}, manual |-> 0]

\* The browser SDK before init: config null, empty queue, no flush timer and
\* no page-hide listeners. flight holds the batches of the fetch calls that
\* have not returned; fetches counts the fetch calls made.
Sdk0 ==
    [config |-> "null", excluded |-> FALSE, timer |-> FALSE,
     listeners |-> FALSE, queue |-> <<>>, flight |-> {}, next |-> 1,
     fetches |-> 0]

\* time.Time{}, the zero time of an event without a timestamp
ZeroTime == 0
\* a nil *string
Nil == "nil"

\* The request handler before it enriches an event: no event, no clock
\* reading, nothing handed to the collector
NoEvent == [time |-> ZeroTime, country |-> Nil, payload |-> "none"]
Request0 ==
    [pc |-> "idle", event |-> NoEvent, now |-> ZeroTime, later |-> ZeroTime,
     out |-> NoEvent]

\* No POST /collect request is being served. drops0 is history: the drops
\* counted when the handler started to push the events of its request
NoBody == [kind |-> "none", n |-> 0]
Http0 ==
    [p \in Producers |-> [pc |-> "idle", body |-> NoBody, status |-> 0,
                          drops0 |-> 0]]

\* generateToken gives a fresh token at each call; NoToken is the empty
\* string extractToken returns for a request without a bearer token
Tokens == 1 .. NumTokens
NoToken == 0
Requests == 1 .. NumRequests

\* the absence of an entry in h.sessions
NoSession == [role |-> "none", expires |-> 0, via |-> "none"]

\* a request handler that is not serving a request
\* (ended and at are history: whether the token was logged out or expired
\* when the request came in, and the clock reading of its expiry check)
NoRequest ==
    [pc |-> "idle", kind |-> "none", token |-> NoToken, seen |-> NoSession,
     ended |-> FALSE, at |-> 0, valid |-> FALSE, status |-> 0, next |-> FALSE]

\* NewAuthHandler: no session. issued counts the tokens generated, made
\* keeps every session as it was created, loggedOut holds the tokens whose
\* HandleLogout has returned; the three are history.
Auth0 ==
    [sessions |-> [t \in Tokens |-> NoSession], now |-> 0, issued |-> 0,
     made |-> [t \in Tokens |-> NoSession], loggedOut |-> {},
     req |-> [r \in Requests |-> NoRequest]]

\* No GetStats call has been made
Reader0 == [pc |-> "idle", batchCount |-> 0, totalSize |-> 0]

Init ==
    /\ \E cfg \in Configs :
          /\ NewBatchCollector(cfg)
          /\ env = [pushes |-> PushBudget(cfg), errors |-> MaxErrors]
    /\ ctxDone = FALSE
    /\ started = FALSE
    /\ ctl = "idle"
    /\ ppc = [p \in Producers |-> "idle"]
    /\ nextId = 1
    /\ events = [p \in Producers |-> Events0]
    /\ hist = Hist0
    /\ main = Main0
    /\ client = Client0
    /\ sdk = Sdk0
    /\ request = Request0
    /\ http = Http0
    /\ auth = Auth0
    /\ reader = Reader0

\* --------------------------------------------------------------- helpers

\* atomic.Int64.Add on one counter of c.stats
AtomicAdd(st, field, n) == [st EXCEPT ![field] = @ + n]

\* groups of variables an action leaves alone
lifeVars == <<config, shutdown, ctxDone, started, ctl>>
prodVars == <<ppc, nextId, events>>
workVars == <<pc, batch, toFlush, cont, wg>>

\* ------------------------------------------------------------------ Push
\* select { case c.eventCh <- event: ... default: ... }: the send case is
\* ready exactly when the channel has room; otherwise default runs.
ChanHasRoom_OffByOne(q) == Len(q) <= Capacity
ChanHasRoom(q) == Len(q) < Capacity

\* A select with a default case never waits.
PushSelectReady_Blocking(q) == Len(q) < Capacity
PushSelectReady(q) == TRUE

\* default: c.stats.EventsFailed.Add(1)
PushDropStats_Silent(st) == st
PushDropStats(st) == AtomicAdd(st, "EventsFailed", 1)

\* c.stats.EventsReceived.Add(1)
\* Producer p is inside a PushBatch call
InBatch(p) == events[p].size > 0

\* (a Push call of its own, or the call for the next element of the slice of
\* a PushBatch in progress)
PushCount(p) ==
    /\ ppc[p] = "idle"
    /\ IF InBatch(p)
         THEN /\ events' = [events EXCEPT ![p].left = @ - 1]
              /\ env' = env
         ELSE /\ env.pushes > 0
              /\ env' = [env EXCEPT !.pushes = @ - 1]
              /\ events' = events
    /\ stats' = AtomicAdd(stats, "EventsReceived", 1)
    /\ ppc' = [ppc EXCEPT ![p] = "send"]
    /\ hist' = [hist EXCEPT !.late = @ \/ shutdown]
    /\ UNCHANGED <<eventCh, nextId, lifeVars, extVars, workVars>>

\* PushBatch ignores what Push returns: after a drop the loop goes on with
\* the elements left
AfterDrop_Stop(left) == 0
AfterDrop(left) == left

\* events after a Push of producer p returned, with a drop or not: inside
\* PushBatch the loop goes on, or ends when no element is left
Pushed(p, drop) ==
    IF InBatch(p)
      THEN LET left == IF drop THEN AfterDrop(events[p].left)
                               ELSE events[p].left
           IN  IF left = 0
                 THEN [events EXCEPT ![p] = Events0]
                 ELSE [events EXCEPT ![p].left = left,
                                     ![p].done = @ + 1,
                                     ![p].drops = IF drop THEN @ + 1 ELSE @]
      ELSE events

\* the select of Push: send, or drop and count
PushSend(p) ==
    /\ ppc[p] = "send"
    /\ PushSelectReady(eventCh)
    /\ IF ChanHasRoom(eventCh)
         THEN /\ eventCh' = Append(eventCh, nextId)
              /\ nextId' = nextId + 1
              /\ events' = Pushed(p, FALSE)
              /\ stats' = stats
              /\ hist' = [hist EXCEPT !.burst = @ + 1,
                                      !.late = @ \/ shutdown]
         ELSE /\ eventCh' = eventCh
              /\ nextId' = nextId
              /\ events' = Pushed(p, TRUE)
              /\ stats' = PushDropStats(stats)
              /\ hist' = [hist EXCEPT !.burst = @ + 1,
                                      !.dropped = @ + 1,
                                      !.late = @ \/ shutdown]
    /\ ppc' = [ppc EXCEPT ![p] = "idle"]
    /\ UNCHANGED <<env, lifeVars, extVars, workVars>>

\* a loop over a slice of m elements starts for producer p; each iteration
\* is a Push call
SliceStarted(p, m) ==
    [events EXCEPT ![p] = [size |-> m, left |-> m, done |-> 0, drops |-> 0]]

\* PushBatch(events) with a slice of m elements
PushBatch(p, m) ==
    /\ ppc[p] = "idle"
    /\ ~InBatch(p)
    /\ env.pushes >= m
    /\ env' = [env EXCEPT !.pushes = @ - m]
    /\ events' = SliceStarted(p, m)
    /\ UNCHANGED <<eventCh, stats, ppc, nextId, hist, lifeVars, extVars, workVars>>

\* ------------------------------------------------------------- lifecycle
\* Start: wg.Add(1) and go c.worker(ctx, i) for every worker
Start ==
    /\ ~started
    /\ started' = TRUE
    /\ wg' = wg + config.Workers
    /\ pc' = [w \in WorkerIds |->
                 IF w < config.Workers THEN "select" ELSE "none"]
    /\ UNCHANGED <<extVars, config, shutdown, ctxDone, ctl, eventCh, stats, batch,
                   toFlush, cont, prodVars, env, hist>>

\* Shutdown, first half: close(c.shutdown)
Shutdown ==
    /\ started
    /\ ctl = "idle"
    /\ shutdown' = TRUE
    /\ ctl' = "waiting"
    /\ hist' = [hist EXCEPT
                  !.late = @ \/ (\E p \in Producers : ppc[p] # "idle")]
    /\ UNCHANGED <<extVars, config, ctxDone, started, eventCh, stats, workVars,
                   prodVars, env>>

\* c.wg.Wait() returns when the counter is zero
WaitDone_NoWait(n) == TRUE
WaitDone(n) == n = 0

\* Shutdown, second half: c.wg.Wait() returns
ShutdownReturn ==
    /\ ctl = "waiting"
    /\ WaitDone(wg)
    /\ ctl' = "returned"
    /\ UNCHANGED <<extVars, config, shutdown, ctxDone, started, eventCh, stats,
                   workVars, prodVars, env, hist>>

\* the owner of ctx cancels it
CancelCtx ==
    /\ ~ctxDone
    /\ ctxDone' = TRUE
    /\ UNCHANGED <<extVars, config, shutdown, started, ctl, eventCh, stats, workVars,
                   prodVars, env, hist>>

\* ---------------------------------------------------------------- worker
\* len(batch) >= c.config.BatchSize
BatchFull_OffByOne(b) == Len(b) > config.BatchSize
BatchFull(b) == Len(b) >= config.BatchSize

\* event := <-c.eventCh takes the oldest event out of the channel
Dequeue_Peek(q) == q
Dequeue(q) == Tail(q)

\* batch = append(batch, event)
AppendEvent_Front(b, e) == <<e>> \o b
AppendEvent(b, e) == Append(b, e)

\* flush returns at once when len(batch) == 0
FlushEmpty_Never(b) == FALSE
FlushEmpty_Partial(b) == Len(b) < config.BatchSize
FlushEmpty(b) == Len(b) = 0

\* toFlush := make([]FrontendEvent, len(batch)); copy(toFlush, batch): the
\* contents of the buffer b, in a slice of its own
Snapshot_AfterReset(b) == <<>>
Snapshot(b) == b

\* batch = batch[:0]
ResetBatch_Keep(b) == b
ResetBatch(b) == <<>>

\* the inner select of the drain loop: an event is read while the channel
\* holds one, the default case ends the loop when it is empty
DrainMore_Skip(q) == FALSE
DrainMore(q) == q # <<>>

\* the fallback runs when CopyFrontendMetrics returned an error
FallbackNeeded_Always(err) == TRUE
FallbackNeeded(err) == err

\* what EventsFailed is given when CopyFrontendMetrics returns an error
CopyErrDelta_None(n) == 0
CopyErrDelta(n) == n

\* the correction added to EventsFailed after a successful INSERT fallback
CorrectDelta_None(n) == 0
CorrectDelta(n) == -n

\* hist with one more storage call op of worker w on the snapshot snap
LogCall(h, w, op, snap) ==
    [h EXCEPT !.calls[w] = Append(@, [op |-> op, events |-> snap,
                                      res |-> "pending"]),
              !.flushes = IF op = "copy" THEN @ + 1 ELSE @,
              !.largest = IF op = "copy" /\ Len(snap) > @ THEN Len(snap) ELSE @,
              !.tickFlushes = IF op = "copy" /\ h.trigger[w] = "tick"
                                THEN @ + 1 ELSE @,
              !.sunk = IF op = "copy" THEN @ \cup Range(snap) ELSE @,
              !.resunk = @ \/ (op = "copy" /\ Range(snap) \cap h.sunk # {})]

\* hist with the result of worker w's storage call in progress
LogResult(h, w, err) ==
    [h EXCEPT !.calls[w][Len(h.calls[w])].res = IF err THEN "err" ELSE "ok"]

\* defer c.wg.Done(), run when worker() returns
WgDone_Skip(n) == n
WgDone(n) == n - 1

\* flush() returns to its caller: back to the for/select loop, or out of
\* worker (return, then the deferred c.wg.Done())
FlushReturn(w, k) ==
    IF k = "loop"
      THEN /\ pc' = [pc EXCEPT ![w] = "select"]
           /\ wg' = wg
      ELSE /\ pc' = [pc EXCEPT ![w] = "exited"]
           /\ wg' = WgDone(wg)

\* hist with the trigger t of the flush worker w is about to call
Triggered(h, w, t) == [h EXCEPT !.trigger[w] = t]

\* flush(), first part, called with local buffer b: nothing to do when b is
\* empty; otherwise copy b to toFlush, reset batch and call
\* c.storage.CopyFrontendMetrics(ctx, toFlush)
flush(w, b, k, h) ==
    IF FlushEmpty(b)
      THEN /\ FlushReturn(w, k)
           /\ batch' = [batch EXCEPT ![w] = b]
           /\ hist' = Triggered(h, w, "none")
           /\ UNCHANGED <<toFlush, cont>>
      ELSE /\ toFlush' = [toFlush EXCEPT ![w] = Snapshot(b)]
           /\ batch' = [batch EXCEPT ![w] = ResetBatch(b)]
           /\ pc' = [pc EXCEPT ![w] = "copy"]
           /\ cont' = [cont EXCEPT ![w] = k]
           /\ hist' = LogCall(h, w, "copy", Snapshot(b))
           /\ wg' = wg

\* worker w, a goroutine of its own, is waiting in its select
AtSelect_Exclusive(w) ==
    /\ pc[w] = "select"
    /\ \A v \in WorkerIds : pc[v] \notin {"copy", "insert"}
AtSelect(w) == pc[w] = "select"

\* case event := <-c.eventCh
Receive(w) ==
    /\ AtSelect(w)
    /\ eventCh # <<>>
    /\ eventCh' = Dequeue(eventCh)
    /\ LET b == AppendEvent(batch[w], Head(eventCh))
           h == [hist EXCEPT !.burst = 0]
       IN  IF BatchFull(b)
             THEN flush(w, b, "loop", Triggered(h, w, "size"))
             ELSE /\ batch' = [batch EXCEPT ![w] = b]
                  /\ hist' = h
                  /\ UNCHANGED <<pc, wg, toFlush, cont>>
    /\ UNCHANGED <<stats, lifeVars, extVars, prodVars, env>>

\* case <-ticker.C
Tick(w) ==
    /\ pc[w] = "select"
    /\ flush(w, batch[w], "loop", Triggered(hist, w, "tick"))
    /\ UNCHANGED <<eventCh, stats, lifeVars, extVars, prodVars, env>>

\* case <-c.shutdown
ObserveShutdown(w) ==
    /\ pc[w] = "select"
    /\ shutdown
    /\ pc' = [pc EXCEPT ![w] = "drain"]
    /\ UNCHANGED <<eventCh, stats, lifeVars, extVars, prodVars, env, hist, batch,
                   toFlush, cont, wg>>

\* what follows the flush() after the drain loop: return
AfterDrain_Loop == "loop"
AfterDrain == "exit"

\* one iteration of the drain loop; when it ends, flush() and return
Drain(w) ==
    /\ pc[w] = "drain"
    /\ IF DrainMore(eventCh)
         THEN /\ eventCh' = Dequeue(eventCh)
              /\ batch' = [batch EXCEPT ![w] = AppendEvent(@, Head(eventCh))]
              /\ hist' = [hist EXCEPT !.burst = 0]
              /\ UNCHANGED <<pc, wg, toFlush, cont>>
         ELSE /\ eventCh' = eventCh
              /\ flush(w, batch[w], AfterDrain, Triggered(hist, w, "drain"))
    /\ UNCHANGED <<stats, lifeVars, extVars, prodVars, env>>

\* case <-ctx.Done(): flush() and return
ObserveCtxDone_Drain(w) ==
    /\ pc[w] = "select"
    /\ ctxDone
    /\ pc' = [pc EXCEPT ![w] = "drain"]
    /\ UNCHANGED <<eventCh, stats, lifeVars, extVars, prodVars, env, hist, batch,
                   toFlush, cont, wg>>
ObserveCtxDone(w) ==
    /\ pc[w] = "select"
    /\ ctxDone
    /\ flush(w, batch[w], "exit", Triggered(hist, w, "ctx"))
    /\ UNCHANGED <<eventCh, stats, lifeVars, extVars, prodVars, env>>

\* the storage call may return the error err
MayReturn(err) == err => env.errors > 0
Spend(err) == [env EXCEPT !.errors = IF err THEN @ - 1 ELSE @]

\* CopyFrontendMetrics returns. nil: EventsProcessed.Add(len(toFlush)).
\* An error: EventsFailed.Add(len(toFlush)), then the call of
\* c.storage.InsertFrontendMetrics(ctx, toFlush)
CopyReturn(w, err) ==
    /\ pc[w] = "copy"
    /\ MayReturn(err)
    /\ env' = Spend(err)
    /\ LET n == Len(toFlush[w]) IN
       IF FallbackNeeded(err)
         THEN /\ stats' = AtomicAdd(stats, "EventsFailed", CopyErrDelta(n))
              /\ pc' = [pc EXCEPT ![w] = "insert"]
              /\ hist' = [LogCall(LogResult(hist, w, err), w, "insert",
                                   toFlush[w])
                            EXCEPT !.dFailed[w] = @ + CopyErrDelta(n)]
         ELSE /\ stats' = AtomicAdd(stats, "EventsProcessed", n)
              /\ pc' = [pc EXCEPT ![w] = "stats1"]
              /\ hist' = [LogResult(hist, w, err)
                            EXCEPT !.dProcessed[w] = @ + n]
    /\ UNCHANGED <<eventCh, lifeVars, extVars, prodVars, batch, toFlush, cont, wg>>

\* where flush() continues to after InsertFrontendMetrics returned an error:
\* the error is logged and flush() goes on to its statistics and returns to
\* its caller as after a success
ContAfterError_Exit(k) == "exit"
ContAfterError(k) == k

\* InsertFrontendMetrics returns. nil: EventsProcessed.Add(len(toFlush)),
\* the correction of EventsFailed follows. An error: only logged.
InsertReturn(w, err) ==
    /\ pc[w] = "insert"
    /\ MayReturn(err)
    /\ env' = Spend(err)
    /\ LET n == Len(toFlush[w]) IN
       IF err
         THEN /\ stats' = stats
              /\ pc' = [pc EXCEPT ![w] = "stats1"]
              /\ hist' = [LogResult(hist, w, err) EXCEPT !.lost = @ + n]
              /\ cont' = [cont EXCEPT ![w] = ContAfterError(@)]
         ELSE /\ stats' = AtomicAdd(stats, "EventsProcessed", n)
              /\ pc' = [pc EXCEPT ![w] = "correct"]
              /\ hist' = [LogResult(hist, w, err)
                            EXCEPT !.dProcessed[w] = @ + n]
              /\ cont' = cont
    /\ UNCHANGED <<eventCh, lifeVars, extVars, prodVars, batch, toFlush, wg>>

\* c.stats.EventsFailed.Add(-int64(len(toFlush)))
Correct(w) ==
    /\ pc[w] = "correct"
    /\ LET d == CorrectDelta(Len(toFlush[w])) IN
       /\ stats' = AtomicAdd(stats, "EventsFailed", d)
       /\ hist' = [hist EXCEPT !.dFailed[w] = @ + d]
    /\ pc' = [pc EXCEPT ![w] = "stats1"]
    /\ UNCHANGED <<eventCh, lifeVars, extVars, prodVars, env, batch, toFlush, cont, wg>>

\* c.stats.BatchesProcessed.Add(1)
CountBatch(w) ==
    /\ pc[w] = "stats1"
    /\ stats' = AtomicAdd(stats, "BatchesProcessed", 1)
    /\ pc' = [pc EXCEPT ![w] = "stats2"]
    /\ UNCHANGED <<eventCh, lifeVars, extVars, prodVars, env, hist, batch, toFlush,
                   cont, wg>>

\* int64(len(toFlush)), what TotalBatchSize is given for the batch b
SizeCounted_One(b) == 1
SizeCounted(b) == Len(b)

\* c.stats.TotalBatchSize.Add(int64(len(toFlush))), and flush() returns
CountSize(w) ==
    /\ pc[w] = "stats2"
    /\ stats' = AtomicAdd(stats, "TotalBatchSize", SizeCounted(toFlush[w]))
    /\ FlushReturn(w, cont[w])
    /\ toFlush' = [toFlush EXCEPT ![w] = <<>>]
    /\ cont' = [cont EXCEPT ![w] = "loop"]
    /\ hist' = [hist EXCEPT !.calls[w] = <<>>,
                            !.trigger[w] = "none",
                            !.dProcessed[w] = 0,
                            !.dFailed[w] = 0]
    /\ UNCHANGED <<eventCh, lifeVars, extVars, prodVars, env, batch>>

\* ------------------------------------------------------------------ Next
Next ==
    \/ \E p \in Producers : PushCount(p)
    \/ \E p \in Producers : PushSend(p)
    \/ Start
    \/ Shutdown
    \/ ShutdownReturn
    \/ CancelCtx
    \/ \E w \in WorkerIds : Receive(w)
    \/ \E w \in WorkerIds : Tick(w)
    \/ \E w \in WorkerIds : ObserveShutdown(w)
    \/ \E w \in WorkerIds : Drain(w)
    \/ \E w \in WorkerIds : ObserveCtxDone(w)
    \/ \E w \in WorkerIds, err \in BOOLEAN : CopyReturn(w, err)
    \/ \E w \in WorkerIds, err \in BOOLEAN : InsertReturn(w, err)
    \/ \E w \in WorkerIds : Correct(w)
    \/ \E w \in WorkerIds : CountBatch(w)
    \/ \E w \in WorkerIds : CountSize(w)

Spec == Init /\ [][Next]_vars

\* ------------------------------------------------------------ GetStats
\* GetStats: one atomic Load per counter, and len(c.eventCh)
GetStats ==
    [EventsReceived |-> stats.EventsReceived,
     EventsProcessed |-> stats.EventsProcessed,
     EventsFailed |-> stats.EventsFailed,
     BatchesProcessed |-> stats.BatchesProcessed,
     QueueSize |-> Len(eventCh)]

\* --------------------------------------------------------- properties
RECURSIVE SumOver(_, _)
SumOver(f, S) ==
    IF S = {} THEN 0
    ELSE LET x == CHOOSE y \in S : TRUE IN f[x] + SumOver(f, S \ {x})

\* the events held by the workers: local buffers and snapshots being written
HeldByWorkers ==
    SumOver([w \in WorkerIds |-> Len(batch[w]) + Len(toFlush[w])], WorkerIds)

Running == {w \in WorkerIds : w < config.Workers}
InWrite(w) == pc[w] \in {"copy", "insert"}
FlushFinished(w) == pc[w] \in {"stats1", "stats2"}
ProducersIdle == \A p \in Producers : ppc[p] = "idle"

\* C1 (drain completeness): once Shutdown has returned, if the context was
\* not cancelled, fewer events than the capacity were pushed and no Push
\* overlapped with or followed Shutdown, then EventsProcessed + EventsFailed
\* equals the number of events pushed, and the channel and every worker
\* buffer are empty.
C1_DrainComplete ==
    (/\ ctl = "returned"
     /\ ~ctxDone
     /\ ~hist.late
     /\ stats.EventsReceived < Capacity)
    => /\ stats.EventsProcessed + stats.EventsFailed = stats.EventsReceived
       /\ eventCh = <<>>
       /\ \A w \in WorkerIds : batch[w] = <<>> /\ toFlush[w] = <<>>

C1_Witness ==
    /\ ctl = "returned"
    /\ ~ctxDone
    /\ ~hist.late
    /\ stats.EventsReceived < Capacity
    /\ stats.EventsProcessed >= 1
    /\ stats.EventsFailed >= 1
    /\ config.Workers >= 2

\* C2 (Push contract): the first step of Push adds exactly 1 to
\* EventsReceived and touches nothing else of the collector; its select
\* appends the event at the tail and leaves EventsFailed alone when the
\* channel holds fewer than capacity events, and otherwise leaves the channel
\* unchanged and adds exactly 1 to EventsFailed; EventsReceived is not
\* touched by the select, and an event is dropped only on a full channel.
C2_PushContract ==
    [][\A p \in Producers :
          /\ PushCount(p) =>
                /\ stats' = [stats EXCEPT !.EventsReceived = @ + 1]
                /\ eventCh' = eventCh
          /\ PushSend(p) =>
                /\ stats'.EventsReceived = stats.EventsReceived
                /\ IF Len(eventCh) < config.BatchSize * 10
                     THEN /\ Len(eventCh') = Len(eventCh) + 1
                          /\ SubSeq(eventCh', 1, Len(eventCh)) = eventCh
                          /\ stats'.EventsFailed = stats.EventsFailed
                          /\ hist'.dropped = hist.dropped
                     ELSE /\ eventCh' = eventCh
                          /\ stats'.EventsFailed = stats.EventsFailed + 1
                          /\ hist'.dropped = hist.dropped + 1]_vars

C2_Witness ==
    /\ hist.dropped >= 1
    /\ stats.EventsFailed >= 1
    /\ Len(eventCh) = Capacity
    /\ stats.EventsReceived > Capacity

\* C3 (Push never blocks): in every reachable state a Push that has counted
\* its event can take its select step at once, whatever the workers, the
\* storage calls and the lifecycle are doing.
C3_PushNeverBlocks ==
    \A p \in Producers : ppc[p] = "send" => ENABLED PushSend(p)

C3_Witness ==
    /\ \E p \in Producers : ppc[p] = "send"
    /\ Len(eventCh) = Capacity
    /\ \A w \in Running : InWrite(w)
    /\ started

\* C4 (stats monotonicity): no step decreases EventsReceived,
\* EventsProcessed, EventsFailed or BatchesProcessed.
C4_StatsMonotone ==
    [][/\ stats'.EventsReceived >= stats.EventsReceived
       /\ stats'.EventsProcessed >= stats.EventsProcessed
       /\ stats'.EventsFailed >= stats.EventsFailed
       /\ stats'.BatchesProcessed >= stats.BatchesProcessed]_vars

\* C5 (meaning of EventsFailed): at every moment EventsFailed is the number
\* of events dropped by Push plus the sizes of the batches whose COPY and
\* INSERT have both failed.
C5_FailedIsDroppedPlusLost ==
    stats.EventsFailed = hist.dropped + hist.lost

\* C6 (fallback correctness): when a flush of n events whose COPY failed and
\* whose INSERT succeeded has completed its writes, it has added exactly n to
\* EventsProcessed and a net 0 to EventsFailed.
C6_FallbackCorrect ==
    \A w \in WorkerIds :
       (/\ FlushFinished(w)
        /\ Len(hist.calls[w]) = 2
        /\ hist.calls[w][2].res = "ok")
       => /\ hist.dProcessed[w] = Len(toFlush[w])
          /\ hist.dFailed[w] = 0

C6_Witness ==
    \E w \in WorkerIds :
       /\ FlushFinished(w)
       /\ Len(hist.calls[w]) = 2
       /\ hist.calls[w][2].res = "ok"
       /\ Len(toFlush[w]) >= 2

\* C7 (at most two storage calls, no requeue): a flush calls COPY once, first,
\* and INSERT at most once, with the same snapshot and only after COPY
\* returned an error; when both failed the flush has added the batch size to
\* EventsFailed and nothing to EventsProcessed; no event handed to the sink is
\* in the channel or in a worker buffer again, or handed to COPY a second
\* time.
C7_TwoCallsNoRequeue ==
    /\ \A w \in WorkerIds :
          LET cs == hist.calls[w] IN
          /\ Len(cs) <= 2
          /\ Len(cs) >= 1 => cs[1].op = "copy" /\ cs[1].events = toFlush[w]
          /\ Len(cs) = 2 => /\ cs[2].op = "insert"
                            /\ cs[2].events = cs[1].events
                            /\ cs[1].res = "err"
          /\ InWrite(w) \/ FlushFinished(w) \/ pc[w] = "correct"
                => Len(cs) >= 1
          /\ (FlushFinished(w) /\ Len(cs) = 2 /\ cs[2].res = "err")
                => /\ hist.dFailed[w] = Len(toFlush[w])
                   /\ hist.dProcessed[w] = 0
    /\ ~hist.resunk
    /\ \A e \in hist.sunk :
          /\ e \notin Range(eventCh)
          /\ \A w \in WorkerIds : e \notin Range(batch[w])

C7_Witness ==
    \E w \in WorkerIds :
       /\ FlushFinished(w)
       /\ Len(hist.calls[w]) = 2
       /\ hist.calls[w][2].res = "err"
       /\ Len(toFlush[w]) >= 2
       /\ eventCh # <<>>

\* C8 (queue bounds): the channel holds between 0 and BatchSize * 10 events,
\* and so does the QueueSize GetStats reports.
C8_QueueBounded ==
    /\ Len(eventCh) >= 0
    /\ Len(eventCh) <= config.BatchSize * 10
    /\ GetStats.QueueSize >= 0
    /\ GetStats.QueueSize <= config.BatchSize * 10

C8_Witness ==
    /\ GetStats.QueueSize = config.BatchSize * 10
    /\ started
    /\ \E p \in Producers : ppc[p] = "send"

\* C9 (bounded memory): the events in the channel, in the worker buffers and
\* in the snapshots being written are never more than
\* capacity + Workers * BatchSize.
C9_BoundedMemory ==
    Len(eventCh) + HeldByWorkers
       <= config.BatchSize * 10 + config.Workers * config.BatchSize

\* C10 (backpressure): capacity + 1 Push calls completed without any worker
\* receiving in between leave the channel holding exactly capacity events and
\* EventsFailed >= 1; when no worker has received anything yet and no Push
\* is under way, EventsReceived = capacity + 1.
C10_Backpressure ==
    /\ hist.burst >= Capacity + 1
          => Len(eventCh) = Capacity /\ stats.EventsFailed >= 1
    /\ (hist.burst = Capacity + 1 /\ ProducersIdle /\ hist.sunk = {}
        /\ \A w \in WorkerIds : batch[w] = <<>>)
          => stats.EventsReceived = Capacity + 1

C10_Witness ==
    /\ hist.burst = Capacity + 1
    /\ ProducersIdle
    /\ ~started
    /\ stats.EventsReceived = Capacity + 1

\* ---------------------------------------------------------------------------
\* The events a worker has taken from the channel so far
Dequeued == (nextId - 1) - Len(eventCh)

\* The sequence first + 1, first + 2, ..., first + n
Consecutive(first, n) == [i \in 1 .. n |-> first + i]

\* C11: batch-size trigger. With a single worker, no shutdown, no
\* cancellation and no flush started by the ticker, the worker starts one
\* flush for every batch_size events it receives: after exactly batch_size
\* events there has been exactly one bulk-write call, its batch is exactly
\* those batch_size events, and the worker's buffer is empty again.
C11_BatchSizeTrigger ==
    (started /\ config.Workers = 1 /\ ~shutdown /\ ~ctxDone
       /\ hist.tickFlushes = 0)
    => LET B == config.BatchSize
       IN  /\ hist.flushes = Dequeued \div B
           /\ Len(batch[0]) = Dequeued % B
           /\ hist.sunk = 1 .. (B * hist.flushes)
           /\ InWrite(0)
                => toFlush[0] = Consecutive(B * (hist.flushes - 1), B)
           /\ (Dequeued = B /\ eventCh = <<>>)
                => (hist.flushes = 1 /\ batch[0] = <<>>)

C11_Witness ==
    /\ config.Workers = 1
    /\ config.BatchSize = MaxBatchSize + 1
    /\ ~shutdown /\ ~ctxDone
    /\ hist.tickFlushes = 0
    /\ stats.EventsReceived = config.BatchSize
    /\ ProducersIdle
    /\ eventCh = <<>>
    /\ pc[0] = "select"
    /\ hist.flushes = 1
    /\ hist.sunk = 1 .. config.BatchSize
    /\ batch[0] = <<>>

\* ---------------------------------------------------------------------------
\* A single worker has flushed everything of exactly n pushed events, with
\* neither shutdown nor cancellation
AllFlushedOf(n) ==
    /\ started /\ config.Workers = 1 /\ ~shutdown /\ ~ctxDone
    /\ config.BatchSize >= 2
    /\ stats.EventsReceived = n /\ nextId - 1 = n /\ ProducersIdle
    /\ eventCh = <<>> /\ batch[0] = <<>> /\ pc[0] = "select"

\* The statement of C12 as written: batch_size - 1 pushed events are flushed
\* by exactly one flush, wherever the ticker fires.
C12_Original ==
    AllFlushedOf(config.BatchSize - 1) => hist.flushes = 1

\* C12: timer trigger. With a single worker, batch_size - 1 pushed events are
\* flushed by at least one and at most batch_size - 1 flushes, each started
\* by the ticker, which together carry exactly those events, each once; a
\* tick that finds all batch_size - 1 of them in the buffer starts the one
\* and only flush, which carries exactly those events and empties the buffer.
C12_TimerTrigger ==
    /\ [](AllFlushedOf(config.BatchSize - 1)
            => /\ hist.flushes \in 1 .. (config.BatchSize - 1)
               /\ hist.flushes = hist.tickFlushes
               /\ hist.sunk = 1 .. (config.BatchSize - 1)
               /\ ~hist.resunk)
    /\ [][(/\ Tick(0)
           /\ config.Workers = 1 /\ config.BatchSize >= 2
           /\ hist.flushes = 0
           /\ Len(batch[0]) = config.BatchSize - 1)
          => (/\ hist'.flushes = 1
              /\ hist'.tickFlushes = 1
              /\ toFlush'[0] = Consecutive(0, config.BatchSize - 1)
              /\ batch'[0] = <<>>
              /\ pc'[0] = "copy")]_vars

\* one tick flush carrying the whole partial batch
C12_Witness ==
    /\ AllFlushedOf(config.BatchSize - 1)
    /\ hist.flushes = 1
    /\ hist.tickFlushes = 1
    /\ stats.BatchesProcessed = 1
    /\ stats.TotalBatchSize = config.BatchSize - 1

\* ---------------------------------------------------------------------------
\* The collector under fair scheduling: a worker goroutine that can take a
\* step eventually takes one (a ticker that has a buffer to flush counts: it
\* fires again and again), a storage call returns, a Push call in progress
\* completes, and wg.Wait() returns once the counter is zero.
WorkerStep(w) ==
    \/ Receive(w)
    \/ Tick(w)
    \/ ObserveShutdown(w)
    \/ Drain(w)
    \/ ObserveCtxDone(w)
    \/ \E err \in BOOLEAN : CopyReturn(w, err)
    \/ \E err \in BOOLEAN : InsertReturn(w, err)
    \/ Correct(w)
    \/ CountBatch(w)
    \/ CountSize(w)

Fairness ==
    /\ \A w \in WorkerIds : WF_vars(WorkerStep(w))
    /\ \A p \in Producers : WF_vars(PushSend(p))
    /\ WF_vars(ShutdownReturn)

\* The configurations explored under fair scheduling: the light ones
LiveConfigs ==
    {[BatchSize |-> MaxBatchSize + 1, Workers |-> 1],
     [BatchSize |-> 1, Workers |-> MaxWorkers]}

LiveInit == Init /\ config \in LiveConfigs

LiveSpec == LiveInit /\ [][Next]_vars /\ Fairness

\* The ids an event can get in the configurations of LiveSpec
LiveEvents == UNION {1 .. PushBudget(cfg) : cfg \in LiveConfigs}

NoWorkerRunning == \A w \in WorkerIds : pc[w] \in {"none", "exited"}

\* C13: eventual flush. Under fair scheduling, every event in the queue is
\* eventually handed to the storage sink unless no worker is running any
\* more; every event in a worker's buffer is eventually handed to the sink,
\* even if the buffer never reaches batch_size; and a tick of a worker's
\* ticker hands the whole buffer of that worker to the sink.
C13_EventualFlush ==
    /\ \A e \in LiveEvents :
          (e \in Range(eventCh)) ~> (e \in hist.sunk \/ NoWorkerRunning)
    /\ \A e \in LiveEvents :
          (\E w \in WorkerIds : e \in Range(batch[w])) ~> (e \in hist.sunk)
    /\ [][\A w \in WorkerIds :
             (Tick(w) /\ batch[w] # <<>>)
             => (/\ toFlush'[w] = batch[w]
                 /\ Range(batch[w]) \subseteq hist'.sunk
                 /\ pc'[w] = "copy")]_vars

\* a partial buffer was flushed by the ticker with neither shutdown nor
\* cancellation
C13_Witness ==
    /\ config.BatchSize = MaxBatchSize + 1
    /\ ~shutdown /\ ~ctxDone
    /\ \E w \in Running :
          /\ pc[w] = "copy"
          /\ hist.trigger[w] = "tick"
          /\ Len(toFlush[w]) < config.BatchSize
          /\ Range(toFlush[w]) \subseteq hist.sunk

\* ---------------------------------------------------------------------------
\* C14: Shutdown joins the workers. In every state where Shutdown has
\* returned, each of the workers Start launched has left its loop, the
\* wait-group counter is zero, no storage write of a worker is in progress,
\* and no worker can take any further step.
C14_ShutdownJoins ==
    ctl = "returned"
    => /\ wg = 0
       /\ \A w \in Running : pc[w] = "exited"
       /\ \A w \in WorkerIds : ~InWrite(w) /\ ~ENABLED WorkerStep(w)

\* Shutdown has returned after several workers drained and flushed
C14_Witness ==
    /\ ctl = "returned"
    /\ config.Workers = MaxWorkers
    /\ config.BatchSize = MaxBatchSize
    /\ stats.BatchesProcessed >= 2
    /\ \A w \in Running : pc[w] = "exited"

\* ---------------------------------------------------------------------------
\* C15: Shutdown terminates. Under fair scheduling with storage calls that
\* return, once Shutdown is called every worker leaves its loop and Shutdown
\* returns; a worker that is on its way out starts no flush after its final
\* one; and while a storage write of a worker has not returned, Shutdown has
\* not returned and cannot return (there is no timeout).
C15_ShutdownTerminates ==
    /\ (ctl = "waiting") ~> (ctl = "returned")
    /\ shutdown ~> (\A w \in Running : pc[w] = "exited")
    /\ [][\A w \in WorkerIds :
             (cont[w] = "exit" /\ pc[w] # "copy") => pc'[w] # "copy"]_vars
    /\ []((\E w \in Running : InWrite(w))
            => (ctl # "returned" /\ ~ENABLED ShutdownReturn))

\* Shutdown is blocked on the final write of a draining worker
C15_Witness ==
    /\ ctl = "waiting"
    /\ \E w \in Running :
          /\ InWrite(w)
          /\ cont[w] = "exit"
          /\ hist.trigger[w] = "drain"
    /\ ~ENABLED ShutdownReturn

\* ---------------------------------------------------------------------------
\* Worker w is leaving after it observed the cancelled context
LeavingOnCancel(w) == cont[w] = "exit" /\ hist.trigger[w] = "ctx"

\* C16: context cancellation. A worker that observes the cancelled context
\* leaves the queue as it is, flushes its buffer once if the buffer is not
\* empty and makes no storage call if it is, and exits: it never goes back
\* to reading the queue and starts no second flush. Events in the queue are
\* in no batch handed to the sink, and once every flush has finished the
\* processed and failed counters together count exactly the events handed to
\* the sink and the events dropped by Push.
C16_ContextCancel ==
    /\ [][\A w \in WorkerIds :
             ObserveCtxDone(w)
             => /\ eventCh' = eventCh
                /\ batch'[w] = <<>>
                /\ IF batch[w] = <<>>
                     THEN /\ pc'[w] = "exited"
                          /\ hist'.flushes = hist.flushes
                          /\ hist'.sunk = hist.sunk
                     ELSE /\ pc'[w] = "copy"
                          /\ cont'[w] = "exit"
                          /\ toFlush'[w] = batch[w]
                          /\ hist'.flushes = hist.flushes + 1]_vars
    /\ [][\A w \in WorkerIds :
             LeavingOnCancel(w)
             => /\ pc'[w] \notin {"select", "drain"}
                /\ batch'[w] = <<>>
                /\ pc[w] # "copy" => pc'[w] # "copy"]_vars
    /\ [](/\ Range(eventCh) \cap hist.sunk = {}
          /\ (\A w \in WorkerIds : pc[w] \in {"none", "select", "drain", "exited"})
               => stats.EventsProcessed + stats.EventsFailed
                    = Cardinality(hist.sunk) + hist.dropped)

\* a cancelled worker is flushing its buffer while events remain queued
C16_Witness ==
    /\ ctxDone /\ ~shutdown
    /\ eventCh # <<>>
    /\ \E w \in Running :
          /\ pc[w] = "copy"
          /\ LeavingOnCancel(w)
          /\ toFlush[w] # <<>>

\* ---------------------------------------------------------------------------
\* The collector with producers that also call PushBatch, with slices of
\* two elements or more (PushBatch of one element is one Push call)
NextBatch ==
    \/ Next
    \/ \E p \in Producers, m \in 2 .. MaxSlice : PushBatch(p, m)

SpecBatch == Init /\ [][NextBatch]_vars

\* The Push calls asked for so far: those of their own and the elements of
\* the slices given to PushBatch
Requested == PushBudget(config) - env.pushes

\* The elements of slices whose Push call has not started
NotYetPushed == SumOver([p \in Producers |-> events[p].left], Producers)

\* C17: PushBatch of m events is m successive Push calls in slice order.
\* events_received counts one per element whose Push has started, so a
\* PushBatch that has returned has added exactly m; the Push of an element,
\* enqueued or dropped, leaves the elements after it to be pushed, whatever
\* happened to the elements before it; PushBatch returns with the Push of
\* its m-th element; and an enqueued element goes behind every event
\* enqueued before, the earlier elements of the slice included.
C17_PushBatch ==
    /\ [](/\ stats.EventsReceived = Requested - NotYetPushed
          /\ \A p \in Producers :
                InBatch(p)
                => /\ events[p].done + events[p].left
                        + (IF ppc[p] = "send" THEN 1 ELSE 0) = events[p].size
                   /\ events[p].drops <= events[p].done)
    /\ [][\A p \in Producers :
             (PushSend(p) /\ InBatch(p))
             => /\ IF ChanHasRoom(eventCh)
                     THEN /\ eventCh' = Append(eventCh, nextId)
                          /\ \A e \in Range(eventCh) : e < nextId
                          /\ stats'.EventsFailed = stats.EventsFailed
                     ELSE /\ eventCh' = eventCh
                          /\ stats'.EventsFailed = stats.EventsFailed + 1
                /\ IF events[p].left > 0
                     THEN /\ events'[p].left = events[p].left
                          /\ events'[p].done = events[p].done + 1
                     ELSE /\ events[p].done + 1 = events[p].size
                          /\ ~InBatch(p)']_vars

\* inside a PushBatch of two, the first element was dropped on a full queue
\* and the second is being pushed while the queue has room again
C17_Witness ==
    \E p \in Producers :
       /\ events[p].size = 2
       /\ events[p].done = 1
       /\ events[p].drops = 1
       /\ ppc[p] = "send"
       /\ ChanHasRoom(eventCh)

\* ---------------------------------------------------------------------------
\* The events in the queue, in the workers' buffers and in the batches being
\* written
InFlight ==
    Range(eventCh)
      \cup UNION {Range(batch[w]) \cup Range(toFlush[w]) : w \in WorkerIds}

\* C18: single ownership. An event is in one place at a time: the queue, one
\* worker's buffer or one worker's batch being written, once; no event is
\* handed to the sink in two batches. A dequeue moves the oldest queued
\* event to the buffer of exactly one worker and touches no other worker,
\* and the batch a worker hands to the sink is its own buffer.
C18_SingleOwnership ==
    /\ [](/\ Cardinality(InFlight) = Len(eventCh) + HeldByWorkers
          /\ ~hist.resunk)
    /\ [][Len(eventCh') < Len(eventCh)
          => \E w \in Running :
                /\ pc[w] \in {"select", "drain"}
                /\ eventCh' = Tail(eventCh)
                /\ LET b == Append(batch[w], Head(eventCh))
                   IN  \/ batch'[w] = b /\ toFlush'[w] = toFlush[w]
                       \/ batch'[w] = <<>> /\ toFlush'[w] = b
                /\ \A v \in WorkerIds \ {w} :
                      batch'[v] = batch[v] /\ toFlush'[v] = toFlush[v]]_vars
    /\ [][\A w \in WorkerIds :
             (pc[w] # "copy" /\ pc'[w] = "copy")
             => /\ \/ toFlush'[w] = batch[w]
                   \/ /\ eventCh # <<>>
                      /\ toFlush'[w] = Append(batch[w], Head(eventCh))
                /\ hist'.sunk = hist.sunk \cup Range(toFlush'[w])]_vars

\* two workers write at the same time, each a batch of its own
C18_Witness ==
    \E v, w \in Running :
       /\ v # w
       /\ InWrite(v) /\ InWrite(w)
       /\ toFlush[v] # <<>> /\ toFlush[w] # <<>>
       /\ Range(toFlush[v]) \cap Range(toFlush[w]) = {}

\* ---------------------------------------------------------------------------
\* s holds its events in the order they were enqueued (identities are given
\* in enqueue order)
InQueueOrder(s) == \A i, j \in 1 .. Len(s) : i < j => s[i] < s[j]

\* C19: order within a batch. The queue, every worker's buffer and every
\* batch handed to the sink hold their events in enqueue order, the batch
\* built by the shutdown drain included; and a worker holds only events
\* older than the ones still queued, so dequeue order is enqueue order.
C19_BatchOrder ==
    /\ InQueueOrder(eventCh)
    /\ \A w \in WorkerIds :
          /\ InQueueOrder(batch[w])
          /\ InQueueOrder(toFlush[w])
          /\ \A e \in Range(batch[w]) \cup Range(toFlush[w]) :
                \A q \in Range(eventCh) : e < q
          /\ \A e \in Range(toFlush[w]) :
                \A b \in Range(batch[w]) : e < b

\* the shutdown drain built a batch of several events, handed to the sink
C19_Witness ==
    \E w \in Running :
       /\ pc[w] = "copy"
       /\ hist.trigger[w] = "drain"
       /\ Len(toFlush[w]) >= 2
       /\ InQueueOrder(toFlush[w])

\* ---------------------------------------------------------------------------
\* C20: every batch handed to the storage sink holds at least one and at
\* most batch_size events, whatever started the flush (size, tick, shutdown
\* drain, cancellation).
C20_BatchSizeBound ==
    \A w \in WorkerIds :
       InWrite(w)
       => (Len(toFlush[w]) >= 1 /\ Len(toFlush[w]) <= config.BatchSize)

\* ===========================================================================
\* The entry point main(): open the database pool, start the collector,
\* serve HTTP, and on SIGTERM shut down.

\* What storage.NewPostgres can return: a pool, or the error of ParseConfig,
\* of NewWithConfig or of the first Ping
DbOutcomes == {"ok", "parseFailed", "poolFailed", "pingFailed"}

\* The process is running
Alive == ~main.exited

\* if err != nil { os.Exit(1) } after NewPostgres
ExitOnDbError_Never(o) == FALSE
ExitOnDbError(o) == o # "ok"

\* db, err := storage.NewPostgres(cfg.DatabaseURL), and the exit on error
NewPostgres(o) ==
    /\ Alive
    /\ main.db = "none"
    /\ main' = [main EXCEPT !.db = o, !.exited = ExitOnDbError(o)]
    /\ UNCHANGED <<collectorVars, client, sdk, request, moreVars>>

\* NewBatchCollector and batchCollector.Start(ctx), reached once the
\* database check is behind
MainStart ==
    /\ Alive
    /\ main.db # "none"
    /\ Start

\* the goroutine running server.ListenAndServe(): the server accepts
\* requests, or fails to listen and the process exits
ListenAndServe(ok) ==
    /\ Alive
    /\ started
    /\ main.server = "new"
    /\ main' = [main EXCEPT !.server = IF ok THEN "listening" ELSE "failed",
                            !.exited = ~ok]
    /\ UNCHANGED <<collectorVars, client, sdk, request, moreVars>>

\* a POST /collect request accepted by the listening server reaches
\* h.collector.Push
HandlePush(p) ==
    /\ Alive
    /\ main.server = "listening"
    /\ PushCount(p)

HandleSend(p) == Alive /\ PushSend(p)

\* <-done returned (SIGTERM): batchCollector.Shutdown()
MainShutdown == Alive /\ Shutdown

MainShutdownReturn == Alive /\ ShutdownReturn

\* server.Shutdown(shutdownCtx): the server stops accepting requests
ServerShutdown ==
    /\ Alive
    /\ ctl = "returned"
    /\ main.server \in {"new", "listening"}
    /\ main' = [main EXCEPT !.server = "closed"]
    /\ UNCHANGED <<collectorVars, client, sdk, request, moreVars>>

\* main returns: the deferred cancel() and db.Close() run, the process ends
MainReturn ==
    /\ Alive
    /\ main.server = "closed"
    /\ main' = [main EXCEPT !.exited = TRUE]
    /\ ctxDone' = TRUE
    /\ UNCHANGED <<config, eventCh, stats, shutdown, started, wg, ctl, pc,
                   batch, toFlush, cont, ppc, nextId, events, env, hist,
                   client, sdk, request, moreVars>>

\* a step of worker w while the process runs
MainWorker(w) == Alive /\ WorkerStep(w)

NextMain ==
    \/ \E o \in DbOutcomes : NewPostgres(o)
    \/ MainStart
    \/ \E ok \in BOOLEAN : ListenAndServe(ok)
    \/ \E p \in Producers : HandlePush(p)
    \/ \E p \in Producers : HandleSend(p)
    \/ MainShutdown
    \/ MainShutdownReturn
    \/ ServerShutdown
    \/ MainReturn
    \/ \E w \in WorkerIds : MainWorker(w)

SpecMain == Init /\ [][NextMain]_vars

\* C21: graceful shutdown of the process. Once the collector's Shutdown has
\* begun no Push call starts, and when the process has exited after a
\* shutdown no event is left in the queue: every pushed event was handed to
\* the sink or counted in events_failed.
C21_GracefulExit ==
    /\ [][shutdown => stats'.EventsReceived = stats.EventsReceived]_vars
    /\ []((main.exited /\ ctl = "returned")
            => /\ eventCh = <<>>
               /\ stats.EventsReceived
                    = Cardinality(hist.sunk) + hist.dropped)

\* C29: fatal startup ordering. Workers run and the server listens only
\* after NewPostgres returned a pool; when opening the pool or the first
\* ping fails, the process exits with no worker started, no request accepted
\* and no event received, and nothing happens afterwards.
C29_StartupOrder ==
    /\ (started \/ main.server # "new" \/ stats.EventsReceived > 0
          \/ \E w \in WorkerIds : pc[w] # "none")
       => main.db = "ok"
    /\ main.db \in DbOutcomes \ {"ok"}
       => /\ main.exited
          /\ ~started
          /\ main.server = "new"
          /\ \A w \in WorkerIds : pc[w] = "none"
          /\ wg = 0
          /\ stats = Stats0
          /\ ~ENABLED NextMain

\* the first ping failed and the process is gone
C29_Witness ==
    /\ main.db = "pingFailed"
    /\ main.exited
    /\ ~started
    /\ ~ENABLED NextMain

\* ===========================================================================
\* The Go client for internal services: Track functions, Flush, flushLoop
\* and Close.

\* len(c.apiMetrics) >= c.batchSize
ShouldFlush(b) == Len(b) >= ClientBatchSize

\* The goroutine a go c.Flush(...) statement starts
FreshFlusher == CHOOSE g \in Flushers \ {0} : client.fl[g].st = "none"

\* TrackAPI, TrackPSP, TrackGame, TrackWebSocket: append under the mutex and
\* start a goroutine running Flush when the buffer has reached batchSize
Track(k) ==
    /\ client.next <= MaxTrack
    /\ LET b == Append(client.buf[k], client.next)
           c1 == [client EXCEPT
                    !.buf[k] = b,
                    !.next = @ + 1,
                    !.early = IF client.closer = "idle"
                                THEN @ \cup {client.next} ELSE @]
       IN  client' = IF ShouldFlush(b)
                       THEN [c1 EXCEPT !.fl[FreshFlusher].st = "spawned"]
                       ELSE c1
    /\ UNCHANGED <<collectorVars, main, sdk, request, moreVars>>

AllSent(snap) == \A k \in KindSet : snap[k] = <<>>

\* The buffer Flush sends next: the first non-empty one
NextKind(snap) ==
    Kinds[CHOOSE i \in 1 .. Len(Kinds) :
            /\ snap[Kinds[i]] # <<>>
            /\ \A j \in 1 .. (i - 1) : snap[Kinds[j]] = <<>>]

\* Flush returns in goroutine g: flushLoop goes back to its select, or
\* returns after its final Flush and runs wg.Done(); a goroutine started by
\* a Track function just ends
FlushDone(c, g) ==
    IF g = 0
      THEN IF c.fl[0].final
             THEN [c EXCEPT !.fl[0].st = "exited", !.wg = @ - 1]
             ELSE [c EXCEPT !.fl[0].st = "select"]
      ELSE [c EXCEPT !.fl[g].st = "done"]

\* Flush, first part: under the mutex take the four buffers and reset them
FlushTake(c, g) ==
    LET c1 == [c EXCEPT !.fl[g].snap = c.buf, !.buf = NoMetrics]
    IN  IF AllSent(c.buf)
          THEN FlushDone(c1, g)
          ELSE [c1 EXCEPT !.fl[g].st = "sending"]

\* case <-ticker.C: c.Flush(...)
ClientTick ==
    /\ client.fl[0].st = "select"
    /\ client' = FlushTake(client, 0)
    /\ UNCHANGED <<collectorVars, main, sdk, request, moreVars>>

\* case <-c.done: c.Flush(...); return
ClientLoopDone ==
    /\ client.fl[0].st = "select"
    /\ client.done
    /\ client' = FlushTake([client EXCEPT !.fl[0].final = TRUE], 0)
    /\ UNCHANGED <<collectorVars, main, sdk, request, moreVars>>

\* a goroutine started by a Track function enters Flush
SpawnedFlush(g) ==
    /\ g # 0
    /\ client.fl[g].st = "spawned"
    /\ client' = FlushTake(client, g)
    /\ UNCHANGED <<collectorVars, main, sdk, request, moreVars>>

\* the buffer after c.send returned an error for the metrics ms: the error
\* is collected for Flush's return value, nothing is put back
AfterSendError_Requeue(buf, ms) == ms \o buf
AfterSendError(buf, ms) == buf

\* c.send of the next non-empty buffer returns, with an error or not
SendReturn(g, ok) ==
    /\ client.fl[g].st = "sending"
    /\ LET k == NextKind(client.fl[g].snap)
           ms == client.fl[g].snap[k]
           c1 == [client EXCEPT
                    !.sent = @ \cup Range(ms),
                    !.tries = [m \in DOMAIN @ |->
                                 IF m \in Range(ms) THEN @[m] + 1 ELSE @[m]],
                    !.failed = IF ok THEN @ ELSE @ \cup Range(ms),
                    !.buf[k] = IF ok THEN @ ELSE AfterSendError(@, ms),
                    !.fl[g].snap[k] = <<>>]
       IN  client' = IF AllSent(c1.fl[g].snap) THEN FlushDone(c1, g) ELSE c1
    /\ UNCHANGED <<collectorVars, main, sdk, request, moreVars>>

\* Close, first half: close(c.done)
ClientClose ==
    /\ client.closer = "idle"
    /\ client' = [client EXCEPT !.done = TRUE, !.closer = "waiting"]
    /\ UNCHANGED <<collectorVars, main, sdk, request, moreVars>>

\* Close, second half: c.wg.Wait() returns
ClientCloseReturn ==
    /\ client.closer = "waiting"
    /\ client.wg = 0
    /\ client' = [client EXCEPT !.closer = "returned"]
    /\ UNCHANGED <<collectorVars, main, sdk, request, moreVars>>

NextClient ==
    \/ \E k \in KindSet : Track(k)
    \/ ClientTick
    \/ ClientLoopDone
    \/ \E g \in Flushers : SpawnedFlush(g)
    \/ \E g \in Flushers, ok \in BOOLEAN : SendReturn(g, ok)
    \/ ClientClose
    \/ ClientCloseReturn

\* The collector is left as constructed
InitClient == Init /\ config = [BatchSize |-> 1, Workers |-> 1]

SpecClient == InitClient /\ [][NextClient]_vars

\* C22: graceful close of the Go client. When Close has returned, every
\* metric of a Track call that returned before Close was called has been
\* handed to an HTTP send that has finished, and no Flush of the client is
\* still sending.
C22_CloseFlushesAll ==
    client.closer = "returned"
    => /\ client.early \subseteq client.sent
       /\ \A g \in Flushers : client.fl[g].st # "sending"

\* ===========================================================================
\* The browser SDK: init with session sampling, the public calls, the
\* batch sender and its timer and page-hide triggers.

\* Math.random() and sampleRate, in hundredths
Draws == {0, 50, 99}
SampleRates == {0, 50, 100}

\* Math.random() > this.config.sampleRate
Excluded(draw, rate) == draw > rate

\* The event types of the public calls track, interaction and error
EventTypes == {"custom", "interaction", "error"}

\* queue.splice(0, batchSize): the batch taken and what stays queued
SpliceBatch(q) == SubSeq(q, 1, IF Len(q) < SdkBatchSize THEN Len(q) ELSE SdkBatchSize)
SpliceRest(q) == SubSeq(q, Len(SpliceBatch(q)) + 1, Len(q))

\* sendBatch up to its await: nothing when config is null or the queue is
\* empty, else a batch is cut from the head of the queue and fetch is called
SendBatch(s) ==
    IF s.config = "null" \/ s.queue = <<>>
      THEN s
      ELSE [s EXCEPT !.queue = SpliceRest(s.queue),
                     !.flight = @ \cup {SpliceBatch(s.queue)},
                     !.fetches = @ + 1]

\* init: config is assigned first, then the sampling draw decides whether
\* the timer and the listeners are installed
SdkInit(draw, rate) ==
    /\ sdk.config = "null"
    /\ sdk' = IF Excluded(draw, rate)
                THEN [sdk EXCEPT !.config = "set", !.excluded = TRUE]
                ELSE [sdk EXCEPT !.config = "set", !.timer = TRUE,
                                 !.listeners = TRUE]
    /\ UNCHANGED <<collectorVars, main, client, request, moreVars>>

\* push, called by track, interaction and error: returns when config is
\* null, else queues the event and sends when the queue has reached batchSize
SdkPush(t) ==
    /\ sdk.next <= MaxSdkEvents
    /\ sdk.fetches < MaxFetch
    /\ sdk' = IF sdk.config = "null"
                THEN sdk
                ELSE LET s1 == [sdk EXCEPT
                                  !.queue = Append(@, [id |-> sdk.next, type |-> t]),
                                  !.next = @ + 1]
                     IN  IF Len(s1.queue) >= SdkBatchSize THEN SendBatch(s1) ELSE s1
    /\ UNCHANGED <<collectorVars, main, client, request, moreVars>>

\* flush(): sendBatch
SdkFlush ==
    /\ sdk.fetches < MaxFetch
    /\ sdk' = SendBatch(sdk)
    /\ UNCHANGED <<collectorVars, main, client, request, moreVars>>

\* the setInterval callback of startFlushTimer
SdkTimer ==
    /\ sdk.timer
    /\ sdk.fetches < MaxFetch
    /\ sdk' = SendBatch(sdk)
    /\ UNCHANGED <<collectorVars, main, client, request, moreVars>>

\* the visibilitychange and pagehide listeners of setupUnloadFlush
SdkPageHide ==
    /\ sdk.listeners
    /\ sdk.fetches < MaxFetch
    /\ sdk' = SendBatch(sdk)
    /\ UNCHANGED <<collectorVars, main, client, request, moreVars>>

\* destroy(): clearInterval, then flush()
SdkDestroy ==
    /\ sdk.fetches < MaxFetch
    /\ sdk' = SendBatch([sdk EXCEPT !.timer = FALSE])
    /\ UNCHANGED <<collectorVars, main, client, request, moreVars>>

\* fetch returns for batch b: on a response that is not ok, or an
\* exception, the batch is put back at the head of the queue
SdkFetchReturn(b, ok) ==
    /\ b \in sdk.flight
    /\ sdk' = [sdk EXCEPT !.flight = @ \ {b},
                          !.queue = IF ok THEN @ ELSE b \o @]
    /\ UNCHANGED <<collectorVars, main, client, request, moreVars>>

NextSdk ==
    \/ \E draw \in Draws, rate \in SampleRates : SdkInit(draw, rate)
    \/ \E t \in EventTypes : SdkPush(t)
    \/ SdkFlush
    \/ SdkTimer
    \/ SdkPageHide
    \/ SdkDestroy
    \/ \E b \in sdk.flight, ok \in BOOLEAN : SdkFetchReturn(b, ok)

SpecSdk == InitClient /\ [][NextSdk]_vars

\* C23: browser SDK sampling. When init has excluded the session (the draw
\* exceeds sampleRate), the SDK makes no fetch call to the endpoint, whatever
\* track, interaction, error and flush calls follow.
C23_ExcludedSendsNothing == sdk.excluded => sdk.fetches = 0

\* ===========================================================================
\* Worker failures, accounting and drain

\* worker w is in a flush whose COPY and INSERT calls both returned an error
BothFailed(w) ==
    /\ Len(hist.calls[w]) = 2
    /\ hist.calls[w][2].res = "err"

\* C24: worker failures are non-fatal. When a flush in which both write
\* paths failed returns, the worker's local buffer is empty and the worker is
\* back in its select loop (or, if that flush was the final one of a shutdown
\* or of a cancellation, it returns as after a successful one); a worker
\* leaves its loop only with the shutdown signal or the cancellation raised,
\* and a worker in its select can always take the next queued event.
C24_FailureNonFatal ==
    /\ [][\A w \in WorkerIds :
            /\ (pc[w] = "stats2" /\ BothFailed(w) /\ pc'[w] # "stats2")
               => /\ batch'[w] = <<>>
                  /\ \/ pc'[w] = "select"
                     \/ pc'[w] = "exited" /\ cont[w] = "exit"
                  /\ cont[w] = "exit" => (shutdown \/ ctxDone)
            /\ (pc[w] # pc'[w] /\ pc'[w] \in {"drain", "exited"})
               => (shutdown \/ ctxDone)]_vars
    /\ [](\A w \in WorkerIds :
            (pc[w] = "select" /\ eventCh # <<>>) => ENABLED Receive(w))

\* the only worker lost a batch on both paths and is writing a later one,
\* with neither shutdown nor cancellation raised
C24_Witness ==
    /\ config.Workers = 1
    /\ hist.lost > 0
    /\ hist.flushes >= 2
    /\ pc[0] = "copy"
    /\ ~shutdown /\ ~ctxDone

\* worker w is inside flush() with a non-empty batch
InFlush(w) == pc[w] \in {"copy", "insert", "correct", "stats1", "stats2"}

\* C25: every flush of a non-empty batch of n events adds exactly 1 to
\* batches_processed and exactly n to the running batch-size total, whether
\* the write succeeded through COPY, through the fallback, or failed on
\* both, and nothing else changes the two counters; hence, whenever no flush
\* is in progress, batches_processed is the number of flushes started and
\* total batch size = events_processed + events_failed - events dropped by
\* Push.
C25_BatchAccounting ==
    /\ [][/\ stats'.BatchesProcessed - stats.BatchesProcessed
               = Cardinality({w \in WorkerIds :
                                pc[w] = "stats1" /\ pc'[w] = "stats2"})
          /\ \A w \in WorkerIds :
               (pc[w] = "stats2" /\ pc'[w] # "stats2")
               => stats'.TotalBatchSize - stats.TotalBatchSize = Len(toFlush[w])
          /\ (\A w \in WorkerIds : pc[w] = "stats2" => pc'[w] = "stats2")
               => stats'.TotalBatchSize = stats.TotalBatchSize
          /\ \A w \in WorkerIds :
               (pc[w] = "copy" /\ pc'[w] # "copy")
               => (InFlush(w)' /\ toFlush'[w] = toFlush[w] /\ toFlush[w] # <<>>)
          /\ \A w \in WorkerIds :
               (pc[w] \in {"insert", "correct"} /\ pc'[w] # pc[w])
               => (InFlush(w)' /\ toFlush'[w] = toFlush[w])]_vars
    /\ []((\A w \in WorkerIds : ~InFlush(w))
            => /\ stats.BatchesProcessed = hist.flushes
               /\ stats.TotalBatchSize
                    = stats.EventsProcessed + stats.EventsFailed - hist.dropped)

\* no flush in progress, after a batch lost on both paths and a written batch,
\* one of them of more than one event
C25_Witness ==
    /\ \A w \in WorkerIds : ~InFlush(w)
    /\ config.BatchSize > 1
    /\ hist.lost > 0
    /\ stats.EventsProcessed > 0
    /\ stats.BatchesProcessed >= 2
    /\ stats.TotalBatchSize > stats.BatchesProcessed

\* C26: counters never go negative. In every reachable state the counters
\* events_received, events_processed, events_failed, batches_processed (and
\* the batch-size total) are >= 0, and so is every field GetStats loads; in
\* particular the subtraction after a successful fallback never takes
\* events_failed below 0. Each field of a GetStats snapshot is one atomic
\* load, hence the value of that counter in some reachable state.
C26_CountersNonNegative ==
    [](/\ \A f \in DOMAIN stats : stats[f] >= 0
       /\ \A f \in DOMAIN GetStats : GetStats[f] >= 0)

\* the correction after a successful fallback has just been subtracted and
\* events_failed is back at 0
C26_Witness ==
    \E w \in WorkerIds :
        /\ pc[w] = "stats1"
        /\ Len(hist.calls[w]) = 2
        /\ hist.calls[w][2].res = "ok"
        /\ stats.EventsFailed = 0
        /\ stats.EventsProcessed > 0

\* worker v can take its next step, whatever it is: a receive, a timer
\* flush, the end of its own write, its statistics, its drain
CanProceed(v) ==
    /\ (pc[v] = "select" /\ eventCh # <<>>) => ENABLED Receive(v)
    /\ pc[v] = "select" => ENABLED Tick(v)
    /\ pc[v] = "drain" => ENABLED Drain(v)
    /\ pc[v] = "copy" => ENABLED CopyReturn(v, FALSE)
    /\ pc[v] = "insert" => ENABLED InsertReturn(v, FALSE)
    /\ pc[v] = "correct" => ENABLED Correct(v)
    /\ pc[v] = "stats1" => ENABLED CountBatch(v)
    /\ pc[v] = "stats2" => ENABLED CountSize(v)

\* C27: a worker blocked in its own storage write does not prevent the
\* progress of the others. While the write of one worker is outstanding,
\* every other running worker can still dequeue, take its timer or size
\* trigger and complete its flush; and a non-empty queue can be consumed
\* whenever some worker is in its select or its drain loop, that is, unless
\* every worker that has not returned is inside flush().
C27_NoMutualBlocking ==
    [](/\ \A w \in Running : \A v \in Running \ {w} :
            InWrite(w) => CanProceed(v)
       /\ (eventCh # <<>> /\ \E v \in Running : pc[v] \in {"select", "drain"})
            => \E v \in Running : ENABLED Receive(v) \/ ENABLED Drain(v))

\* the write of worker 0 is outstanding, an event is queued, and worker 1,
\* waiting in its select, can take it
C27_Witness ==
    /\ config.Workers = 2
    /\ InWrite(0)
    /\ toFlush[0] # <<>>
    /\ pc[1] = "select"
    /\ eventCh # <<>>
    /\ ENABLED Receive(1)

\* C28: after a worker has observed the shutdown signal it reads the queue
\* without blocking until one read finds it empty, appending each event to
\* its buffer and starting no flush meanwhile, whatever the size of the
\* buffer; it then returns at once if its buffer is empty, and otherwise
\* performs one flush of everything it holds and returns when that flush is
\* over, without going back to its select.
C28_DrainThenFlushOnce ==
    [][\A w \in WorkerIds :
         /\ (pc[w] = "drain" /\ pc'[w] = "drain" /\ batch'[w] # batch[w])
            => /\ eventCh # <<>>
               /\ eventCh' = Tail(eventCh)
               /\ batch'[w] = Append(batch[w], Head(eventCh))
               /\ toFlush'[w] = <<>>
               /\ hist'.flushes = hist.flushes
         /\ (pc[w] = "drain" /\ pc'[w] # "drain")
            => /\ eventCh = <<>>
               /\ IF batch[w] = <<>>
                    THEN pc'[w] = "exited" /\ hist'.flushes = hist.flushes
                    ELSE /\ pc'[w] = "copy"
                         /\ toFlush'[w] = batch[w]
                         /\ batch'[w] = <<>>
                         /\ cont'[w] = "exit"
                         /\ hist'.flushes = hist.flushes + 1
         /\ (InFlush(w) /\ cont[w] = "exit")
            => /\ batch'[w] = <<>>
               /\ \/ InFlush(w)' /\ cont'[w] = "exit" /\ toFlush'[w] = toFlush[w]
                  \/ pc[w] = "stats2" /\ pc'[w] = "exited"]_vars

\* a worker in the one flush after its drain, with more events than a batch
C28_Witness ==
    \E w \in WorkerIds :
        /\ shutdown
        /\ pc[w] = "insert"
        /\ hist.trigger[w] = "drain"
        /\ cont[w] = "exit"
        /\ Len(toFlush[w]) > config.BatchSize
        /\ eventCh = <<>>

\* ===========================================================================
\* The request handler: enrichment of one event of a batch

\* resolveCountry: the GeoIP lookup is not implemented and returns ""
ResolveCountry == ""

\* The events of a request body: any timestamp or none, a country that is
\* null, empty or given, and the other producer fields
Timestamps == 1 .. MaxTime
InputEvents ==
    [time : {ZeroTime} \cup Timestamps,
     country : {Nil, "", "DE"},
     payload : {"lcp", "custom"}]

\* time.Since(t), with now the clock reading it takes
Since(now, t) == now - t

\* diff < -time.Hour || diff > time.Hour
TooFar_Inclusive(diff) == diff <= -Hour \/ diff >= Hour
TooFar(diff) == diff < -Hour \/ diff > Hour

\* the enriched copy of event e; now is the first clock reading the handler
\* takes for it (time.Now() for a zero timestamp, time.Since otherwise) and
\* later the time.Now() that follows a timestamp found too far off
Enriched(e, now, later) ==
    [time |-> IF e.time = ZeroTime
                THEN now
                ELSE IF TooFar(Since(now, e.time)) THEN later ELSE e.time,
     country |-> IF e.country = Nil \/ e.country = ""
                   THEN ResolveCountry ELSE e.country,
     payload |-> e.payload]

\* one iteration of the loop over batch.Events, up to h.collector.Push
Enrich(e, now, later) ==
    /\ request.pc = "idle"
    /\ later >= now
    /\ later - now <= MaxLag
    /\ request' = [pc |-> "enriched", event |-> e, now |-> now,
                   later |-> later, out |-> Enriched(e, now, later)]
    /\ UNCHANGED <<collectorVars, main, client, sdk, moreVars>>

\* the loop goes on to the next event
NextEvent ==
    /\ request.pc = "enriched"
    /\ request' = Request0
    /\ UNCHANGED <<collectorVars, main, client, sdk, moreVars>>

NextEnrich ==
    \/ \E e \in InputEvents, now \in Timestamps, later \in 1 .. (MaxTime + MaxLag) :
         Enrich(e, now, later)
    \/ NextEvent

SpecEnrich == InitClient /\ [][NextEnrich]_vars

\* the event's timestamp is missing or strictly more than one hour from now
Implausible(e, now) ==
    \/ e.time = ZeroTime
    \/ e.time - now > Hour
    \/ now - e.time > Hour

\* C30 as stated: the enriched timestamp is now when the event's timestamp is
\* missing or strictly more than one hour from now, and the event's own
\* otherwise; all other producer fields are unchanged.
C30_Original ==
    request.pc = "enriched"
    => /\ request.out.time = IF Implausible(request.event, request.now)
                               THEN request.now ELSE request.event.time
       /\ request.out.country = request.event.country
       /\ request.out.payload = request.event.payload

\* C30: timestamp enrichment. With now the clock reading the handler
\* compares with, the enriched timestamp is the event's own when it is
\* present and within one hour of now in either direction (exactly one hour
\* is kept); it is now when the timestamp is missing, and a second clock
\* reading taken at or after now when the timestamp is more than one hour
\* off. A country that is null or empty is replaced by the resolved country;
\* every other producer field is passed through unchanged.
C30_TimestampEnrichment ==
    request.pc = "enriched"
    => LET e == request.event
           o == request.out
       IN  /\ e.time = ZeroTime => o.time = request.now
           /\ (e.time # ZeroTime /\ Implausible(e, request.now))
              => /\ o.time = request.later
                 /\ request.later >= request.now
           /\ ~Implausible(e, request.now) => o.time = e.time
           /\ o.country = IF e.country \in {Nil, ""}
                            THEN ResolveCountry ELSE e.country
           /\ o.payload = e.payload

\* an event exactly one hour old keeps its timestamp, and its null country
\* is filled in
C30_Witness ==
    /\ request.pc = "enriched"
    /\ request.event.time # ZeroTime
    /\ request.now - request.event.time = Hour
    /\ request.out.time = request.event.time
    /\ request.event.country = Nil
    /\ request.out.country = ResolveCountry

\* ===========================================================================
\* CollectHandler.Handle: the POST /collect request of a producer, from the
\* decoding of its body to its answer

\* The request bodies: not JSON at all; JSON that does not decode into an
\* EventBatch (events is not an array, a time is not a timestamp, ...); and
\* an EventBatch of n events
Bodies ==
    {[kind |-> "malformed", n |-> 0], [kind |-> "mistyped", n |-> 0]}
      \cup [kind : {"events"}, n : 0 .. MaxSlice]

\* json.NewDecoder(r.Body).Decode(&batch) returns nil
Decodes_AnyJson(body) == body.kind # "malformed"
Decodes(body) == body.kind = "events"

\* Handle up to its loop: 400 on a decoding error, 202 for a batch without
\* events, else the loop over batch.Events starts
HandleCollect(p, body) ==
    /\ http[p].pc = "idle"
    /\ ppc[p] = "idle"
    /\ ~InBatch(p)
    /\ IF ~Decodes(body)
         THEN /\ http' = [http EXCEPT ![p] = [pc |-> "replied", body |-> body,
                                              status |-> 400, drops0 |-> 0]]
              /\ UNCHANGED <<events, env>>
         ELSE IF body.n = 0
           THEN /\ http' = [http EXCEPT ![p] = [pc |-> "replied", body |-> body,
                                                status |-> 202, drops0 |-> 0]]
                /\ UNCHANGED <<events, env>>
           ELSE /\ env.pushes >= body.n
                /\ env' = [env EXCEPT !.pushes = @ - body.n]
                /\ events' = SliceStarted(p, body.n)
                /\ http' = [http EXCEPT ![p] = [pc |-> "pushing", body |-> body,
                                                status |-> 0,
                                                drops0 |-> hist.dropped]]
    /\ UNCHANGED <<eventCh, stats, ppc, nextId, hist, lifeVars, workVars,
                   main, client, sdk, request, auth, reader>>

\* the enrichment of the next event and the first statement of
\* h.collector.Push(enriched)
HandleCount(p) ==
    /\ http[p].pc = "pushing"
    /\ InBatch(p)
    /\ PushCount(p)

\* the select of that Push
HandleSelect(p) ==
    /\ http[p].pc = "pushing"
    /\ PushSend(p)

\* after the loop: w.WriteHeader(http.StatusAccepted)
HandleAccepted(p) ==
    /\ http[p].pc = "pushing"
    /\ ~InBatch(p)
    /\ ppc[p] = "idle"
    /\ http' = [http EXCEPT ![p].pc = "replied", ![p].status = 202]
    /\ UNCHANGED <<collectorVars, main, client, sdk, request, auth, reader>>

\* the handler goroutine serves its next request
HandleNext(p) ==
    /\ http[p].pc = "replied"
    /\ http' = [http EXCEPT ![p] = Http0[p]]
    /\ UNCHANGED <<collectorVars, main, client, sdk, request, auth, reader>>

NextCollect ==
    \/ \E p \in Producers, body \in Bodies : HandleCollect(p, body)
    \/ \E p \in Producers : HandleCount(p)
    \/ \E p \in Producers : HandleSelect(p)
    \/ \E p \in Producers : HandleAccepted(p)
    \/ \E p \in Producers : HandleNext(p)

\* The handlers alone, in front of a collector whose queue is not consumed:
\* the requests find the queue with room, then partly full, then full
SpecCollect == Init /\ [][NextCollect]_vars

InPush == Cardinality({p \in Producers : ppc[p] = "send"})

\* the events of the snapshots whose flush has not yet updated a counter
Uncounted ==
    SumOver([w \in WorkerIds |-> IF pc[w] = "copy" THEN Len(toFlush[w]) ELSE 0],
            WorkerIds)

\* the events in the workers' local buffers
Buffered == SumOver([w \in WorkerIds |-> Len(batch[w])], WorkerIds)

\* C32: event conservation. In every reachable state events_received =
\* events_processed + events_failed + events in the queue + events in worker
\* buffers + events of snapshots whose flush has not yet updated a counter +
\* Push calls between their increment and their send; in particular
\* events_processed + events_failed never exceeds events_received.
C32_Conservation ==
    /\ stats.EventsReceived
         = stats.EventsProcessed + stats.EventsFailed + Len(eventCh)
             + Buffered + Uncounted + InPush
    /\ stats.EventsProcessed + stats.EventsFailed <= stats.EventsReceived

\* C33: a flush trigger (timer tick, shutdown, context cancellation) that
\* finds the worker's buffer empty is a no-op: no storage call is made and
\* events_processed, events_failed, batches_processed and the batch-size
\* total are unchanged. A flush starts from an empty buffer only with the
\* receipt of an event, and every storage call carries at least one event.
C33_EmptyFlushNoOp ==
    /\ [][\A w \in WorkerIds :
            (pc[w] \in {"select", "drain"} /\ batch[w] = <<>>)
            => /\ pc'[w] = "copy" => (eventCh' # eventCh /\ toFlush'[w] # <<>>)
               /\ pc'[w] \in {"select", "drain", "exited"}
                  => /\ batch'[w] = <<>> \/ eventCh' # eventCh
                     /\ hist'.calls[w] = hist.calls[w]
                     /\ toFlush'[w] = toFlush[w]
               /\ pc'[w] = "exited"
                  => /\ stats' = stats
                     /\ hist'.flushes = hist.flushes]_vars
    /\ [](\A w \in WorkerIds :
            /\ InFlush(w) => toFlush[w] # <<>>
            /\ \A i \in 1 .. Len(hist.calls[w]) : hist.calls[w][i].events # <<>>)

\* a worker with an empty buffer has returned on cancellation, with no flush
\* and no counter touched, after events were received
C33_Witness ==
    \E w \in WorkerIds :
        /\ pc[w] = "exited"
        /\ ctxDone /\ ~shutdown
        /\ hist.flushes = 0
        /\ stats.BatchesProcessed = 0
        /\ stats.EventsProcessed = 0
        /\ stats.EventsReceived > 0
        /\ batch[w] = <<>>

\* C34: after Shutdown has returned the queue is never consumed again. No
\* worker takes a step; a Push still adds one to events_received; its event
\* goes to the end of the queue and stays there while there is room, counted
\* neither as processed nor as failed; and with the queue full every further
\* Push adds one to events_failed and nothing to the queue.
C34_InertAfterShutdown ==
    [][ctl = "returned"
       => /\ \A w \in WorkerIds : pc[w] \in {"none", "exited"} /\ pc'[w] = pc[w]
          /\ batch' = batch /\ toFlush' = toFlush
          /\ stats'.EventsProcessed = stats.EventsProcessed
          /\ stats'.BatchesProcessed = stats.BatchesProcessed
          /\ stats'.TotalBatchSize = stats.TotalBatchSize
          /\ \A p \in Producers :
               /\ (ppc[p] = "idle" /\ ppc'[p] = "send")
                  => /\ stats'.EventsReceived = stats.EventsReceived + 1
                     /\ eventCh' = eventCh
                     /\ stats'.EventsFailed = stats.EventsFailed
               /\ (ppc[p] = "send" /\ ppc'[p] = "idle")
                  => /\ stats'.EventsReceived = stats.EventsReceived
                     /\ IF Len(eventCh) < Capacity
                          THEN /\ eventCh' = Append(eventCh, nextId)
                               /\ stats'.EventsFailed = stats.EventsFailed
                          ELSE /\ eventCh' = eventCh
                               /\ stats'.EventsFailed = stats.EventsFailed + 1
          /\ (ppc' = ppc) => (eventCh' = eventCh /\ stats' = stats)]_vars

\* Shutdown has returned with nothing ever flushed; the pushes made since
\* have filled the queue, and the further ones were counted as failed
C34_Witness ==
    /\ ctl = "returned"
    /\ hist.flushes = 0
    /\ Len(eventCh) = Capacity
    /\ stats.EventsProcessed = 0
    /\ hist.dropped > 0
    /\ stats.EventsFailed = hist.dropped
    /\ stats.EventsReceived = Capacity + hist.dropped

\* ===========================================================================
\* The Go client with Flush called by its user

\* Flush called by the user of the client, in a goroutine of the caller
ManualFlush ==
    /\ client.manual < MaxManual
    /\ client' = FlushTake([client EXCEPT !.manual = @ + 1], FreshFlusher)
    /\ UNCHANGED <<collectorVars, main, sdk, request, moreVars>>

NextClientFlush ==
    \/ NextClient
    \/ ManualFlush

SpecClientFlush == InitClient /\ [][NextClientFlush]_vars

\* how many times metric m occurs in the sequence s
Occurrences(s, m) == Cardinality({i \in 1 .. Len(s) : s[i] = m})

\* the places metric m is in: the buffers, the snapshots of the Flush calls
\* in progress, and the sends it has been part of
Places(m) ==
    SumOver([k \in KindSet |-> Occurrences(client.buf[k], m)], KindSet)
    + SumOver([g \in Flushers |->
                 SumOver([k \in KindSet |-> Occurrences(client.fl[g].snap[k], m)],
                         KindSet)],
              Flushers)
    + client.tries[m]

\* C35: Go client, single delivery attempt. Under any interleaving of Track
\* calls, the periodic flush, size-triggered flushes and Flush calls of the
\* user, each tracked metric is in exactly one place: its buffer, the
\* snapshot of one Flush call, or one finished HTTP send; it is never part of
\* two sends, and after a failed send it is in no buffer and no snapshot.
C35_SingleAttempt ==
    \A m \in 1 .. (client.next - 1) :
        /\ Places(m) = 1
        /\ client.tries[m] <= 1
        /\ m \in client.failed => client.tries[m] = 1

\* every metric has been sent once, one of the sends failed, a Flush of the
\* user took part, and nothing is left to send
C35_Witness ==
    /\ client.next = MaxTrack + 1
    /\ \A m \in 1 .. MaxTrack : client.tries[m] = 1
    /\ client.failed # {}
    /\ client.failed # 1 .. MaxTrack
    /\ \A k \in KindSet : client.buf[k] = <<>>
    /\ \A g \in Flushers : client.fl[g].st # "sending"
    /\ client.manual > 0
    /\ Cardinality({g \in Flushers \ {0} : client.fl[g].st = "done"}) >= 2

\* ===========================================================================
\* Browser SDK: the queue under failed sends

\* the ids of the events of the queue, in queue order
QueuedIds == [i \in 1 .. Len(sdk.queue) |-> sdk.queue[i].id]

\* how many times event id occurs in the queue and in the batches in flight
SdkCopies(id) ==
    Occurrences(QueuedIds, id)
    + SumOver([b \in sdk.flight |->
                 Cardinality({i \in 1 .. Len(b) : b[i].id = id})],
              sdk.flight)

\* C36: browser SDK re-queue on failure. An event is never in two places
\* (the queue, a batch in flight), and the queue holds its events in their
\* original push order, also after failed sends of several sendBatch calls
\* in flight at the same time.
C36_RequeueKeepsOrder ==
    /\ \A id \in 1 .. (sdk.next - 1) : SdkCopies(id) <= 1
    /\ \A i, j \in 1 .. Len(sdk.queue) :
         i < j => sdk.queue[i].id < sdk.queue[j].id

\* ===========================================================================
\* AuthHandler: sessions, login, logout, verification, the two middlewares
\* and the periodic cleanup

authFrame == <<collectorVars, main, client, sdk, request, http, reader>>

\* time.Now().After(session.ExpiresAt)
Expired_Never(now, expires) == FALSE
Expired(now, expires) == now > expires

\* createSession(user): a fresh token, a session that expires 24 hours from
\* now, stored under the token
CreateSession(a, role, via) ==
    LET token == a.issued + 1
        session == [role |-> role, expires |-> a.now + SessionTTL, via |-> via]
    IN  [a EXCEPT !.sessions[token] = session,
                  !.made[token] = session,
                  !.issued = token]

\* deleteSession(token)
DeleteSession(a, token) == [a EXCEPT !.sessions[token] = NoSession]

\* time passes
AuthTick ==
    /\ auth.now < MaxClock
    /\ auth' = [auth EXCEPT !.now = @ + 1]
    /\ UNCHANGED authFrame

\* HandleLogin: a session with role super_admin when login and password
\* match an admin user, 401 and no session otherwise
HandleLogin(match) ==
    /\ match => auth.issued < NumTokens
    /\ auth' = IF match THEN CreateSession(auth, "super_admin", "login") ELSE auth
    /\ UNCHANGED authFrame

\* The Google credentials: a token that does not decode, an email outside
\* the allowed domains, an email of the allowed domain, the email of an
\* admin user
Credentials == {"garbled", "outsider", "member", "admin"}

\* role := "client"; "super_admin" if the email is in adminUsers
GoogleRole(cred) == IF cred = "admin" THEN "super_admin" ELSE "client"

\* HandleGoogleLogin: 401 or 403 and no session for a credential that does
\* not decode or an email outside the allowed domains, else a session
HandleGoogleLogin(cred) ==
    /\ cred \in {"member", "admin"} => auth.issued < NumTokens
    /\ auth' = IF cred \in {"member", "admin"}
                 THEN CreateSession(auth, GoogleRole(cred), "google")
                 ELSE auth
    /\ UNCHANGED authFrame

\* HandleLogout with the bearer token t (tokens are 32 random bytes: a
\* request carries a token that was issued, or none)
HandleLogout(t) ==
    /\ t \in 1 .. auth.issued
    /\ auth' = [DeleteSession(auth, t) EXCEPT !.loggedOut = @ \cup {t}]
    /\ UNCHANGED authFrame

\* one round of cleanupExpiredSessions, under the write lock
Cleanup ==
    /\ auth' = [auth EXCEPT
                  !.sessions = [t \in Tokens |->
                                  IF /\ @[t] # NoSession
                                     /\ Expired(auth.now, @[t].expires)
                                    THEN NoSession ELSE @[t]]]
    /\ UNCHANGED authFrame

\* The protected entry points: HandleVerify, a handler behind RequireAuth, a
\* handler behind RequireAdmin
RequestKinds == {"verify", "auth", "admin"}

\* the token has been logged out, or its session has expired
Ended(a, t) ==
    /\ t # NoToken
    /\ \/ t \in a.loggedOut
       \/ a.made[t] # NoSession /\ a.now > a.made[t].expires

\* a request of kind k with bearer token t comes in: extractToken, then the
\* map lookup of getSession under the read lock; 401 without a token or
\* without a session
Lookup(r, k, t) ==
    /\ auth.req[r].pc = "idle"
    /\ t \in {NoToken} \cup (1 .. auth.issued)
    /\ LET found == IF t = NoToken THEN NoSession ELSE auth.sessions[t]
           q == [NoRequest EXCEPT !.kind = k, !.token = t, !.seen = found,
                                  !.ended = Ended(auth, t)]
       IN  auth' = [auth EXCEPT
                      !.req[r] = IF found = NoSession
                                   THEN [q EXCEPT !.pc = "done", !.status = 401]
                                   ELSE [q EXCEPT !.pc = "found"]]
    /\ UNCHANGED authFrame

\* role != "admin" in RequireAdmin
IsAdminRole_Super(role) == role \in {"admin", "super_admin"}
IsAdminRole(role) == role = "admin"

\* the answer to a request of kind k whose session has role role: the
\* status and whether the wrapped handler was called
Granted(k, role) ==
    IF k = "admin" /\ ~IsAdminRole(role)
      THEN [status |-> 403, next |-> FALSE]
      ELSE [status |-> 200, next |-> k # "verify"]

\* the rest of getSession, after the read lock is released: an expired
\* session is deleted and the request answered 401, else the request goes on
CheckExpiry(r) ==
    /\ auth.req[r].pc = "found"
    /\ LET q == auth.req[r] IN
       IF Expired(auth.now, q.seen.expires)
         THEN auth' = [DeleteSession(auth, q.token) EXCEPT
                         !.req[r].pc = "done",
                         !.req[r].at = auth.now,
                         !.req[r].status = 401]
         ELSE auth' = [auth EXCEPT
                         !.req[r].pc = "done",
                         !.req[r].at = auth.now,
                         !.req[r].valid = TRUE,
                         !.req[r].status = Granted(q.kind, q.seen.role).status,
                         !.req[r].next = Granted(q.kind, q.seen.role).next]
    /\ UNCHANGED authFrame

\* the handler goroutine serves its next request
RequestDone(r) ==
    /\ auth.req[r].pc = "done"
    /\ auth' = [auth EXCEPT !.req[r] = NoRequest]
    /\ UNCHANGED authFrame

NextAuth ==
    \/ AuthTick
    \/ \E match \in BOOLEAN : HandleLogin(match)
    \/ \E cred \in Credentials : HandleGoogleLogin(cred)
    \/ \E t \in Tokens : HandleLogout(t)
    \/ Cleanup
    \/ \E r \in Requests, k \in RequestKinds, t \in {NoToken} \cup Tokens :
         Lookup(r, k, t)
    \/ \E r \in Requests : CheckExpiry(r)
    \/ \E r \in Requests : RequestDone(r)

SpecAuth == InitClient /\ [][NextAuth]_vars

\* C37: session validity. HandleVerify and RequireAuth accept a bearer token
\* only if a session with that token was created by a login, the token had
\* not been logged out when the request came in, and its expiry time, 24
\* hours after creation, has not passed when the request is checked; a
\* request that comes in with a token already logged out or expired is
\* never accepted, under any interleaving with the periodic cleanup.
C37_SessionValidity ==
    \A r \in Requests :
        LET q == auth.req[r] IN
        /\ q.valid
           => /\ q.token \in 1 .. auth.issued
              /\ auth.made[q.token] # NoSession
              /\ q.seen = auth.made[q.token]
              /\ ~q.ended
              /\ q.at <= auth.made[q.token].expires
        /\ (q.pc = "done" /\ q.ended) => (~q.valid /\ q.status = 401 /\ ~q.next)
        /\ (q.pc = "done" /\ ~q.valid) => (q.status = 401 /\ ~q.next)
        /\ \A t \in Tokens :
             auth.sessions[t] # NoSession
             => (auth.sessions[t] = auth.made[t] /\ t \notin auth.loggedOut)

\* a request with a token whose session was still in the map, but expired,
\* has been answered 401 by the expiry check
C37_Witness ==
    \E r \in Requests :
        LET q == auth.req[r] IN
        /\ q.pc = "done"
        /\ q.status = 401
        /\ q.seen # NoSession
        /\ q.at > q.seen.expires
        /\ q.token \notin auth.loggedOut
        /\ auth.sessions[q.token] = NoSession

\* C38: role gate. Every session created by HandleLogin has role
\* super_admin and every session created by HandleGoogleLogin has role
\* super_admin or client, so no session ever carries the role admin;
\* RequireAdmin answers 403 and never calls the wrapped handler for every
\* request with a valid session, and 401 for every request without one.
C38_RoleGate ==
    /\ \A t \in Tokens :
         LET s == auth.made[t] IN
         /\ s.via = "login" => s.role = "super_admin"
         /\ s.via = "google" => s.role \in {"super_admin", "client"}
         /\ s.role # "admin"
         /\ auth.sessions[t].role # "admin"
    /\ \A r \in Requests :
         LET q == auth.req[r] IN
         (q.pc = "done" /\ q.kind = "admin")
         => /\ ~q.next
            /\ q.valid => q.status = 403
            /\ ~q.valid => q.status = 401

\* a request behind RequireAdmin with the live session of a password login
\* has been answered 403
C38_Witness ==
    \E r \in Requests :
        LET q == auth.req[r] IN
        /\ q.pc = "done"
        /\ q.kind = "admin"
        /\ q.valid
        /\ q.seen.role = "super_admin"
        /\ q.seen.via = "login"
        /\ auth.sessions[q.token] = q.seen
        /\ q.status = 403
        /\ ~q.next

\* C39: snapshot isolation. The slice handed to the storage sink is a copy
\* of the worker's buffer taken before the buffer is reset, and the worker
\* does not append to its buffer while its own write is outstanding: the
\* bulk call and the fallback call of a flush are given the same events,
\* and neither the snapshot nor the worker's buffer changes from the start
\* of the flush to its end.
C39_SnapshotIsolation ==
    /\ [](\A w \in WorkerIds :
            InFlush(w)
            => /\ toFlush[w] # <<>>
               /\ batch[w] = <<>>
               /\ hist.calls[w] # <<>>
               /\ \A i \in 1 .. Len(hist.calls[w]) :
                    hist.calls[w][i].events = toFlush[w])
    /\ [][\A w \in WorkerIds :
            /\ (~InFlush(w) /\ InFlush(w)')
               => /\ toFlush'[w] # <<>>
                  /\ \/ toFlush'[w] = batch[w]
                     \/ /\ eventCh # <<>>
                        /\ toFlush'[w] = Append(batch[w], Head(eventCh))
            /\ (InFlush(w) /\ InFlush(w)')
               => (toFlush'[w] = toFlush[w] /\ batch'[w] = batch[w])]_vars

\* the fallback call of a flush of two events is outstanding, given the
\* events the bulk call was given, while an event that arrived during the
\* flush waits in the channel
C39_Witness ==
    \E w \in WorkerIds :
        /\ pc[w] = "insert"
        /\ Len(toFlush[w]) >= 2
        /\ Len(hist.calls[w]) = 2
        /\ hist.calls[w][1].op = "copy"
        /\ hist.calls[w][2].op = "insert"
        /\ hist.calls[w][1].events = hist.calls[w][2].events
        /\ hist.calls[w][2].events = toFlush[w]
        /\ batch[w] = <<>>
        /\ eventCh # <<>>

\* ===========================================================================
\* GetStats, called while the workers run

readerFrame == <<collectorVars, main, client, sdk, request, http, auth>>

\* batchCount := c.stats.BatchesProcessed.Load()
LoadBatchCount ==
    /\ reader.pc = "idle"
    /\ reader' = [reader EXCEPT !.pc = "size",
                                !.batchCount = stats.BatchesProcessed]
    /\ UNCHANGED readerFrame

\* totalSize := c.stats.TotalBatchSize.Load()
LoadTotalSize ==
    /\ reader.pc = "size"
    /\ reader' = [reader EXCEPT !.pc = "done",
                                !.totalSize = stats.TotalBatchSize]
    /\ UNCHANGED readerFrame

\* GetStats returns its map; the next call starts from nothing
GetStatsReturn ==
    /\ reader.pc = "done"
    /\ reader' = Reader0
    /\ UNCHANGED readerFrame

\* if batchCount > 0 { avgBatchSize = float64(totalSize) / float64(batchCount) }:
\* the average is at most the whole number bound
AvgAtMost(r, bound) ==
    IF r.batchCount > 0 THEN r.totalSize <= r.batchCount * bound ELSE TRUE

NextStats ==
    \/ Next
    \/ LoadBatchCount
    \/ LoadTotalSize
    \/ GetStatsReturn

\* one worker with batches of MaxBatchSize + 1 events, flushed by the ticker
InitStats == Init /\ config = [BatchSize |-> MaxBatchSize + 1, Workers |-> 1]

SpecStats == InitStats /\ [][NextStats]_vars

\* C40: snapshot consistency of the derived average. In every GetStats
\* snapshot, also one taken while flushes complete, the batch-size total
\* that was read is at most the batches_processed that was read times the
\* largest batch flushed so far, so avg_batch_size never exceeds the
\* largest batch size.
C40_AverageBounded ==
    reader.pc = "done" => AvgAtMost(reader, hist.largest)

=============================================================================
